---- MODULE Spec2Model ----
(***************************************************************************)
(* TrustLease rental escrow: TrustLeaseEscrow.sol together with the two    *)
(* contracts it calls, PropertyVerification (the eligibility oracle) and   *)
(* RentalReceipt (the receipt ledger).                                     *)
(*                                                                         *)
(* Every external function of the escrow is an operator from the contract  *)
(* storage before the call (a record, World) and the call's inputs to a    *)
(* result [err, st, entry, xfers, ret]: err is "" on success and the text  *)
(* of the failed require otherwise, st is the storage the call leaves,     *)
(* entry the storage it found, xfers the value transfers made, in order,   *)
(* and ret the returned value.  A failed require, a failed sendValue and a *)
(* failed call of the receipt ledger revert the transaction: Revert puts   *)
(* the storage back to entry.  Time is block.timestamp in seconds.         *)
(*                                                                         *)
(* uint256 arithmetic: every subtraction in the contract is guarded by a   *)
(* preceding require, and the sums stay far below 2^256 for the amounts    *)
(* and dates used here, so checked arithmetic never reverts.               *)
(***************************************************************************)
EXTENDS Integers, Sequences, FiniteSets, TLC

\* ------------------------------------------------------------ constants
\* Solidity's time unit `1 days`, in seconds.
Day == 86400

\* Bounds of the exploration.
MaxAgreements == 1
MaxPayments == 2
MaxTicks == 3
MaxEvidence == 2
MaxProperties == 1
MaxPool == 8
MaxConfigCalls == 2

\* Addresses.  ZeroAddr is address(0), This is address(this) of the escrow.
ZeroAddr == "0x0"
This == "escrow"
Admin == "admin"
PlatformWallet == "platform"
Users == {"alice", "bob", Admin}

\* The mappings are total; the slots explored are those of the agreements
\* that can be created and one more, which never is.
MaxIds == 2
AgreementIds == 1..(MaxIds + 1)
PropertyIds == 1..MaxProperties

VARIABLES
    now,                      \* block.timestamp
    nextAgreementId,          \* _nextAgreementId
    agreements,               \* mapping(uint256 => RentalAgreement)
    disputes,                 \* mapping(uint256 => Dispute)
    rentPayments,             \* mapping(uint256 => RentPayment[])
    tenantAgreements,         \* mapping(address => uint256[])
    landlordAgreements,       \* mapping(address => uint256[])
    lastOverdueCheck,         \* mapping(uint256 => uint256)
    platformFeePercent,
    rentProcessingFeePercent,
    disputePeriod,
    defaultGracePeriod,
    gasSubsidyPool,
    isGasSubsidized,          \* mapping(address => bool)
    paused,                   \* Pausable._paused
    balance,                  \* address(this).balance of the escrow
    nextPropertyId,           \* PropertyVerification._nextPropertyId
    properties,               \* PropertyVerification.properties
    minters,                  \* RentalReceipt: holders of MINTER_ROLE
    receipts,                 \* RentalReceipt.receipts, in id order
    returned,                 \* history: ids returned by createAgreement
    configCalls,              \* history: number of configuration calls made
    poolFunded,               \* history: total of the fundGasSubsidy payments
    poolPaidOut,              \* history: total of the gas refunds sent
    paidIn,                   \* history: value received for each agreement
    paidOut                   \* history: value sent for each agreement

vars == <<now, nextAgreementId, agreements, disputes, rentPayments,
          tenantAgreements, landlordAgreements, lastOverdueCheck,
          platformFeePercent, rentProcessingFeePercent, disputePeriod,
          defaultGracePeriod, gasSubsidyPool, isGasSubsidized, paused,
          balance, nextPropertyId, properties, minters, receipts,
          returned, configCalls, poolFunded, poolPaidOut, paidIn, paidOut>>

\* ------------------------------------------------------------ storage
\* A mapping slot never written reads as zero: status 0 is Pending.
ZeroAgreement ==
    [agreementId |-> 0, propertyId |-> 0, tenant |-> ZeroAddr,
     landlord |-> ZeroAddr, depositAmount |-> 0, monthlyRent |-> 0,
     rentInterval |-> 0, startDate |-> 0, endDate |-> 0, createdAt |-> 0,
     status |-> "Pending", metadataHash |-> "", tenantConfirmed |-> FALSE,
     landlordConfirmed |-> FALSE, disputeDeadline |-> 0,
     nextRentDueDate |-> 0, overdueGracePeriod |-> 0, totalRentPaid |-> 0]

ZeroDispute ==
    [agreementId |-> 0, initiator |-> ZeroAddr, reason |-> "",
     evidenceHashes |-> <<>>, createdAt |-> 0, resolved |-> FALSE,
     winner |-> ZeroAddr, isRentDispute |-> FALSE]

ZeroProperty == [owner |-> ZeroAddr, isVerified |-> FALSE, isActive |-> FALSE]

\* The storage of the three contracts as one value.
World ==
    [nextAgreementId |-> nextAgreementId, agreements |-> agreements,
     disputes |-> disputes, rentPayments |-> rentPayments,
     tenantAgreements |-> tenantAgreements,
     landlordAgreements |-> landlordAgreements,
     lastOverdueCheck |-> lastOverdueCheck,
     platformFeePercent |-> platformFeePercent,
     rentProcessingFeePercent |-> rentProcessingFeePercent,
     disputePeriod |-> disputePeriod,
     defaultGracePeriod |-> defaultGracePeriod,
     gasSubsidyPool |-> gasSubsidyPool, isGasSubsidized |-> isGasSubsidized,
     paused |-> paused, balance |-> balance,
     nextPropertyId |-> nextPropertyId, properties |-> properties,
     minters |-> minters, receipts |-> receipts]

\* A call in progress on storage s, nothing failed yet; `seen` lists, transfer
\* by transfer, the storage the recipient finds when the value reaches it.
Begin(s) ==
    [err |-> "", st |-> s, entry |-> s, xfers |-> <<>>, seen |-> <<>>, ret |-> 0]

\* A payable call: msg.value is credited before the body runs.
BeginPayable(s, value) ==
    [err |-> "", st |-> [s EXCEPT !.balance = @ + value], entry |-> s,
     xfers |-> <<>>, seen |-> <<>>, ret |-> 0]

\* revert(msg): every write and transfer of the transaction is undone.
Revert(r, msg) ==
    [err |-> msg, st |-> r.entry, entry |-> r.entry, xfers |-> <<>>,
     seen |-> <<>>, ret |-> 0]

\* require(cond, msg); a call that has reverted runs no further statement.
\* The call in progress is bound to x so that it is evaluated once.
Require(r, cond, msg) ==
    CHOOSE q \in {IF x.err = "" /\ ~cond THEN Revert(x, msg) ELSE x : x \in {r}} : TRUE

\* A transfer that reports its failure and keeps what the call has written so
\* far (a low-level send whose result is only recorded).
sendValueKeepsWrites(r, to, amount) ==
    IF r.err # "" THEN r
    ELSE IF r.st.balance < amount
         THEN [r EXCEPT !.err = "Insufficient balance"]
         ELSE [r EXCEPT !.st.balance = @ - amount,
                        !.xfers = Append(@, [to |-> to, amount |-> amount]),
                        !.seen = Append(@, [r.st EXCEPT !.balance = @ - amount])]

\* Address.sendValue: reverts when the escrow holds less than amount.
sendValue(r, to, amount) ==
    IF r.err # "" THEN r
    ELSE IF r.st.balance < amount
         THEN Revert(r, "Insufficient balance")
         ELSE [r EXCEPT !.st.balance = @ - amount,
                        !.xfers = Append(@, [to |-> to, amount |-> amount]),
                        !.seen = Append(@, [r.st EXCEPT !.balance = @ - amount])]

\* The value the transfers xfers send to the address `to`.
RECURSIVE Received(_, _)
Received(xfers, to) ==
    IF xfers = <<>> THEN 0
    ELSE (IF Head(xfers).to = to THEN Head(xfers).amount ELSE 0)
         + Received(Tail(xfers), to)

\* The value the transfers xfers send in all.
RECURSIVE Sent(_)
Sent(xfers) ==
    IF xfers = <<>> THEN 0 ELSE Head(xfers).amount + Sent(Tail(xfers))

\* ------------------------------------------------------------ oracle
\* An eligibility test that forgets deactivation.
isPropertyVerifiedOnce(s, propertyId) == s.properties[propertyId].isVerified

isPropertyVerified(s, propertyId) ==
    s.properties[propertyId].isVerified /\ s.properties[propertyId].isActive

getPropertyOwner(s, propertyId) == s.properties[propertyId].owner

\* ------------------------------------------------------------ receipt ledger
\* RentalReceipt.mintReceipt, called by `caller` inside the call r.
mintReceipt(r, caller, t, tenant, landlord, propertyId, depositAmount, startDate, endDate, metadataHash) ==
    LET r1 == Require(r, caller \in r.st.minters, "AccessControlUnauthorizedAccount")
        r2 == Require(r1, tenant # ZeroAddr, "Invalid tenant address")
        r3 == Require(r2, landlord # ZeroAddr, "Invalid landlord address")
        r4 == Require(r3, depositAmount > 0, "Deposit must be greater than zero")
        r5 == Require(r4, endDate > startDate, "Invalid rental period")
        r6 == Require(r5, metadataHash # "", "Metadata hash required")
        receiptId == Len(r.st.receipts) + 1
    IN  IF r6.err # "" THEN r6
        ELSE [r6 EXCEPT !.st.receipts = Append(@,
                [receiptType |-> "RentalAgreement", tenant |-> tenant,
                 landlord |-> landlord, propertyId |-> propertyId,
                 amount |-> depositAmount, startDate |-> startDate,
                 endDate |-> endDate, issuedDate |-> t,
                 metadataHash |-> metadataHash,
                 linkedAgreementId |-> receiptId])]

\* RentalReceipt.mintRentPaymentProof, called by `caller` inside the call r.
mintRentPaymentProof(r, caller, tenant, landlord, agreementId, rentAmount, paymentDate, periodStart, periodEnd, metadataHash) ==
    LET r1 == Require(r, caller \in r.st.minters, "AccessControlUnauthorizedAccount")
        r2 == Require(r1, tenant # ZeroAddr, "Invalid tenant address")
        r3 == Require(r2, landlord # ZeroAddr, "Invalid landlord address")
        r4 == Require(r3, rentAmount > 0, "Rent must be greater than zero")
        r5 == Require(r4, periodEnd > periodStart, "Invalid period")
        r6 == Require(r5, metadataHash # "", "Metadata hash required")
    IN  IF r6.err # "" THEN r6
        ELSE [r6 EXCEPT !.st.receipts = Append(@,
                [receiptType |-> "RentPayment", tenant |-> tenant,
                 landlord |-> landlord, propertyId |-> 0,
                 amount |-> rentAmount, startDate |-> periodStart,
                 endDate |-> periodEnd, issuedDate |-> paymentDate,
                 metadataHash |-> metadataHash,
                 linkedAgreementId |-> agreementId])]

\* ------------------------------------------------------------ escrow
\* createAgreement with one of its statements changed, named by `fault`:
\* "grace" stores the grace period of the constructor instead of the one in
\* force, "party" omits the test that the landlord is not the caller,
\* "counter" leaves _nextAgreementId as it found it, "index" files the
\* agreement in the landlord's tenant index instead of the caller's, and
\* "due" has the first rent fall due at the start of the lease.
createAgreementWith(fault, s, t, sender, value, propertyId, landlord, monthlyRent, rentInterval, startDate, endDate, metadataHash) ==
    LET r0 == Require(BeginPayable(s, value), ~s.paused, "EnforcedPause")
        r1 == Require(r0, value > 0, "Deposit must be greater than zero")
        r2 == Require(r1, monthlyRent > 0, "Monthly rent must be greater than zero")
        r3 == Require(r2, rentInterval >= 1 * Day /\ rentInterval <= 365 * Day,
                      "Invalid rent interval")
        r4 == Require(r3, isPropertyVerified(s, propertyId), "Property not verified")
        r5 == Require(r4, landlord = getPropertyOwner(s, propertyId), "Landlord mismatch")
        r6 == Require(r5, fault = "party" \/ landlord # sender,
                      "Landlord cannot be tenant")
        r7 == Require(r6, endDate > startDate, "Invalid rental period")
        r8 == Require(r7, startDate >= t, "Start date must be in future")
        agreementId == s.nextAgreementId
    IN  IF r8.err # "" THEN r8
        ELSE [r8 EXCEPT
                !.st.nextAgreementId = IF fault = "counter" THEN @ ELSE @ + 1,
                !.st.agreements[agreementId] =
                    [agreementId |-> agreementId, propertyId |-> propertyId,
                     tenant |-> sender, landlord |-> landlord,
                     depositAmount |-> value, monthlyRent |-> monthlyRent,
                     rentInterval |-> rentInterval, startDate |-> startDate,
                     endDate |-> endDate, createdAt |-> t,
                     status |-> "Pending", metadataHash |-> metadataHash,
                     tenantConfirmed |-> FALSE, landlordConfirmed |-> FALSE,
                     disputeDeadline |-> 0,
                     nextRentDueDate |-> IF fault = "due" THEN startDate
                                         ELSE startDate + rentInterval,
                     overdueGracePeriod |-> IF fault = "grace" THEN 3 * Day
                                            ELSE s.defaultGracePeriod,
                     totalRentPaid |-> 0],
                !.st.tenantAgreements[IF fault = "index" THEN landlord ELSE sender] =
                    Append(@, agreementId),
                !.st.landlordAgreements[landlord] = Append(@, agreementId),
                !.ret = agreementId]

createAgreementIndexedUnderLandlord(s, t, sender, value, propertyId, landlord, monthlyRent, rentInterval, startDate, endDate, metadataHash) ==
    createAgreementWith("index", s, t, sender, value, propertyId, landlord,
                        monthlyRent, rentInterval, startDate, endDate,
                        metadataHash)

createAgreementDueAtStart(s, t, sender, value, propertyId, landlord, monthlyRent, rentInterval, startDate, endDate, metadataHash) ==
    createAgreementWith("due", s, t, sender, value, propertyId, landlord,
                        monthlyRent, rentInterval, startDate, endDate,
                        metadataHash)

createAgreementConstructorGrace(s, t, sender, value, propertyId, landlord, monthlyRent, rentInterval, startDate, endDate, metadataHash) ==
    createAgreementWith("grace", s, t, sender, value, propertyId, landlord,
                        monthlyRent, rentInterval, startDate, endDate,
                        metadataHash)

createAgreementAnyParties(s, t, sender, value, propertyId, landlord, monthlyRent, rentInterval, startDate, endDate, metadataHash) ==
    createAgreementWith("party", s, t, sender, value, propertyId, landlord,
                        monthlyRent, rentInterval, startDate, endDate,
                        metadataHash)

createAgreementSameId(s, t, sender, value, propertyId, landlord, monthlyRent, rentInterval, startDate, endDate, metadataHash) ==
    createAgreementWith("counter", s, t, sender, value, propertyId, landlord,
                        monthlyRent, rentInterval, startDate, endDate,
                        metadataHash)

\* createAgreement, payable: sender is msg.sender, value is msg.value, t is
\* block.timestamp.
createAgreement(s, t, sender, value, propertyId, landlord, monthlyRent, rentInterval, startDate, endDate, metadataHash) ==
    LET r0 == Require(BeginPayable(s, value), ~s.paused, "EnforcedPause")
        r1 == Require(r0, value > 0, "Deposit must be greater than zero")
        r2 == Require(r1, monthlyRent > 0, "Monthly rent must be greater than zero")
        r3 == Require(r2, rentInterval >= 1 * Day /\ rentInterval <= 365 * Day,
                      "Invalid rent interval")
        r4 == Require(r3, isPropertyVerified(s, propertyId), "Property not verified")
        r5 == Require(r4, landlord = getPropertyOwner(s, propertyId), "Landlord mismatch")
        r6 == Require(r5, landlord # sender, "Landlord cannot be tenant")
        r7 == Require(r6, endDate > startDate, "Invalid rental period")
        r8 == Require(r7, startDate >= t, "Start date must be in future")
        agreementId == s.nextAgreementId
    IN  IF r8.err # "" THEN r8
        ELSE [r8 EXCEPT
                !.st.nextAgreementId = @ + 1,
                !.st.agreements[agreementId] =
                    [agreementId |-> agreementId, propertyId |-> propertyId,
                     tenant |-> sender, landlord |-> landlord,
                     depositAmount |-> value, monthlyRent |-> monthlyRent,
                     rentInterval |-> rentInterval, startDate |-> startDate,
                     endDate |-> endDate, createdAt |-> t,
                     status |-> "Pending", metadataHash |-> metadataHash,
                     tenantConfirmed |-> FALSE, landlordConfirmed |-> FALSE,
                     disputeDeadline |-> 0,
                     nextRentDueDate |-> startDate + rentInterval,
                     overdueGracePeriod |-> s.defaultGracePeriod,
                     totalRentPaid |-> 0],
                !.st.tenantAgreements[sender] = Append(@, agreementId),
                !.st.landlordAgreements[landlord] = Append(@, agreementId),
                !.ret = agreementId]

\* An activation that counts the dispute window from the period of the
\* constructor instead of the period in force.
activateAgreementConstructorPeriod(r, t, agreementId) ==
    [r EXCEPT !.st.agreements[agreementId].status = "Active",
              !.st.agreements[agreementId].disputeDeadline = t + 7 * Day]

\* _activateAgreement, on the call r.
activateAgreement(r, t, agreementId) ==
    [r EXCEPT !.st.agreements[agreementId].status = "Active",
              !.st.agreements[agreementId].disputeDeadline = t + r.st.disputePeriod]

\* tenantConfirm without the test that the tenant has not confirmed yet.
tenantConfirmAgain(s, t, sender, agreementId) ==
    LET agreement == s.agreements[agreementId]
        r1 == Require(Begin(s), agreement.tenant = sender, "Not the tenant")
        r2 == Require(r1, agreement.status = "Pending", "Agreement not pending")
        r4 == [r2 EXCEPT !.st.agreements[agreementId].tenantConfirmed = TRUE]
    IN  IF r2.err # "" THEN r2
        ELSE IF agreement.landlordConfirmed
             THEN [r4 EXCEPT !.st.agreements[agreementId].status = "Active",
                             !.st.agreements[agreementId].disputeDeadline =
                                 t + s.disputePeriod]
             ELSE r4

tenantConfirm(s, t, sender, agreementId) ==
    LET agreement == s.agreements[agreementId]
        r1 == Require(Begin(s), agreement.tenant = sender, "Not the tenant")
        r2 == Require(r1, agreement.status = "Pending", "Agreement not pending")
        r3 == Require(r2, ~agreement.tenantConfirmed, "Already confirmed")
        r4 == [r3 EXCEPT !.st.agreements[agreementId].tenantConfirmed = TRUE]
    IN  IF r3.err # "" THEN r3
        ELSE IF agreement.landlordConfirmed
             THEN activateAgreement(r4, t, agreementId)
             ELSE r4

landlordConfirm(s, t, sender, agreementId) ==
    LET agreement == s.agreements[agreementId]
        r1 == Require(Begin(s), agreement.landlord = sender, "Not the landlord")
        r2 == Require(r1, agreement.status = "Pending", "Agreement not pending")
        r3 == Require(r2, ~agreement.landlordConfirmed, "Already confirmed")
        r4 == [r3 EXCEPT !.st.agreements[agreementId].landlordConfirmed = TRUE]
    IN  IF r3.err # "" THEN r3
        ELSE IF agreement.tenantConfirmed
             THEN activateAgreement(r4, t, agreementId)
             ELSE r4

\* payRent with one of its statements changed, named by `fault`: "total"
\* adds the rent due instead of the value sent to totalRentPaid, "due" counts
\* the next due date from the time of payment, "caller" omits the
\* test that the caller is the tenant, "split" computes the fee on the rent
\* due instead of the value sent, "period" records the period after the
\* due date has moved, "pool" sends the gas refund without taking it off
\* the subsidy pool, and "paused" runs while the contract is paused.
payRentWith(fault, s, t, sender, value, gasCost, agreementId, metadataHash) ==
    LET agreement == s.agreements[agreementId]
        r0 == Require(BeginPayable(s, value), fault = "paused" \/ ~s.paused,
                      "EnforcedPause")
        r1 == Require(r0, agreement.status = "Active", "Agreement not active")
        r2 == Require(r1, fault = "caller" \/ sender = agreement.tenant, "Not the tenant")
        r3 == Require(r2, value >= agreement.monthlyRent, "Insufficient rent amount")
        r4 == Require(r3, t <= agreement.endDate, "Lease has ended")
        moved == IF fault = "period" THEN agreement.rentInterval ELSE 0
        periodStart == agreement.nextRentDueDate - agreement.rentInterval + moved
        periodEnd == agreement.nextRentDueDate + 2 * moved
        r5 == [r4 EXCEPT
                !.st.rentPayments[agreementId] = Append(@,
                    [agreementId |-> agreementId, amount |-> value,
                     paidDate |-> t, periodStart |-> periodStart,
                     periodEnd |-> periodEnd, status |-> "Paid"]),
                !.st.agreements[agreementId].totalRentPaid =
                    @ + (IF fault = "total" THEN agreement.monthlyRent ELSE value),
                !.st.agreements[agreementId].nextRentDueDate =
                    IF fault = "due" THEN t + agreement.rentInterval
                    ELSE @ + agreement.rentInterval]
        base == IF fault = "split" THEN agreement.monthlyRent ELSE value
        processingFee == (base * s.rentProcessingFeePercent) \div 100
        landlordAmount == base - processingFee
        gasRefund == IF gasCost > s.gasSubsidyPool THEN s.gasSubsidyPool ELSE gasCost
        r6 == IF s.isGasSubsidized[sender] /\ s.gasSubsidyPool > 0
              THEN sendValue([r5 EXCEPT !.st.gasSubsidyPool =
                                            IF fault = "pool" THEN @ ELSE @ - gasRefund],
                             sender, gasRefund)
              ELSE r5
        excess == value - agreement.monthlyRent
        r7 == IF excess > 0 THEN sendValue(r6, sender, excess) ELSE r6
        r8 == sendValue(r7, agreement.landlord, landlordAmount)
        r9 == sendValue(r8, PlatformWallet, processingFee)
    IN  IF r4.err # "" THEN r4
        ELSE mintRentPaymentProof(r9, This, agreement.tenant, agreement.landlord,
                                  agreementId, value, t, periodStart, periodEnd,
                                  metadataHash)

payRentWhilePaused(s, t, sender, value, gasCost, agreementId, metadataHash) ==
    payRentWith("paused", s, t, sender, value, gasCost, agreementId, metadataHash)

payRentKeepsPool(s, t, sender, value, gasCost, agreementId, metadataHash) ==
    payRentWith("pool", s, t, sender, value, gasCost, agreementId, metadataHash)

payRentAddsRentDue(s, t, sender, value, gasCost, agreementId, metadataHash) ==
    payRentWith("total", s, t, sender, value, gasCost, agreementId, metadataHash)

payRentDueFromPayment(s, t, sender, value, gasCost, agreementId, metadataHash) ==
    payRentWith("due", s, t, sender, value, gasCost, agreementId, metadataHash)

payRentByAnyone(s, t, sender, value, gasCost, agreementId, metadataHash) ==
    payRentWith("caller", s, t, sender, value, gasCost, agreementId, metadataHash)

payRentSplitsRentDue(s, t, sender, value, gasCost, agreementId, metadataHash) ==
    payRentWith("split", s, t, sender, value, gasCost, agreementId, metadataHash)

payRentRecordsNextPeriod(s, t, sender, value, gasCost, agreementId, metadataHash) ==
    payRentWith("period", s, t, sender, value, gasCost, agreementId, metadataHash)

\* payRent, payable; gasCost is tx.gasprice * gasleft() at the subsidy test.
payRent(s, t, sender, value, gasCost, agreementId, metadataHash) ==
    LET agreement == s.agreements[agreementId]
        r0 == Require(BeginPayable(s, value), ~s.paused, "EnforcedPause")
        r1 == Require(r0, agreement.status = "Active", "Agreement not active")
        r2 == Require(r1, sender = agreement.tenant, "Not the tenant")
        r3 == Require(r2, value >= agreement.monthlyRent, "Insufficient rent amount")
        r4 == Require(r3, t <= agreement.endDate, "Lease has ended")
        periodStart == agreement.nextRentDueDate - agreement.rentInterval
        periodEnd == agreement.nextRentDueDate
        r5 == [r4 EXCEPT
                !.st.rentPayments[agreementId] = Append(@,
                    [agreementId |-> agreementId, amount |-> value,
                     paidDate |-> t, periodStart |-> periodStart,
                     periodEnd |-> periodEnd, status |-> "Paid"]),
                !.st.agreements[agreementId].totalRentPaid = @ + value,
                !.st.agreements[agreementId].nextRentDueDate =
                    @ + agreement.rentInterval]
        processingFee == (value * s.rentProcessingFeePercent) \div 100
        landlordAmount == value - processingFee
        gasRefund == IF gasCost > s.gasSubsidyPool THEN s.gasSubsidyPool ELSE gasCost
        r6 == IF s.isGasSubsidized[sender] /\ s.gasSubsidyPool > 0
              THEN sendValue([r5 EXCEPT !.st.gasSubsidyPool = @ - gasRefund],
                             sender, gasRefund)
              ELSE r5
        excess == value - agreement.monthlyRent
        r7 == IF excess > 0 THEN sendValue(r6, sender, excess) ELSE r6
        r8 == sendValue(r7, agreement.landlord, landlordAmount)
        r9 == sendValue(r8, PlatformWallet, processingFee)
    IN  IF r4.err # "" THEN r4
        ELSE mintRentPaymentProof(r9, This, agreement.tenant, agreement.landlord,
                                  agreementId, value, t, periodStart, periodEnd,
                                  metadataHash)

\* _autoRaiseRentDispute, on the call r.
autoRaiseRentDispute(r, t, agreementId) ==
    [r EXCEPT !.st.agreements[agreementId].status = "Disputed",
              !.st.disputes[agreementId] =
                  [agreementId |-> agreementId, initiator |-> This,
                   reason |-> "Rent payment overdue beyond grace period",
                   evidenceHashes |-> <<>>, createdAt |-> t,
                   resolved |-> FALSE, winner |-> ZeroAddr,
                   isRentDispute |-> TRUE]]

\* checkRentOverdue with one of its statements changed, named by `fault`:
\* "threshold" raises the dispute from the first full day overdue,
\* "cooldown" records the time of the check only when it raises a dispute,
\* and "status" rejects an agreement only when it is Pending.
checkRentOverdueWith(fault, s, t, sender, agreementId) ==
    LET agreement == s.agreements[agreementId]
        r1 == Require(Begin(s),
                      IF fault = "status" THEN agreement.status # "Pending"
                      ELSE agreement.status = "Active", "Agreement not active")
        r2 == Require(r1, sender = agreement.tenant \/ sender = agreement.landlord
                          \/ sender = Admin, "Not authorized")
        r3 == Require(r2, t > s.lastOverdueCheck[agreementId] + 1 * Day,
                      "Cooldown: Check once per day")
        dueDate == agreement.nextRentDueDate
        graceEnd == dueDate + agreement.overdueGracePeriod
        r4 == Require(r3, t > graceEnd, "Still within grace period")
        daysOverdue == (t - graceEnd) \div (1 * Day)
        r5 == [r4 EXCEPT !.st.lastOverdueCheck[agreementId] = t, !.ret = daysOverdue]
        most == IF fault = "threshold" THEN 1 ELSE 3
    IN  IF r4.err # "" THEN r4
        ELSE IF daysOverdue >= most /\ agreement.status # "Disputed"
             THEN autoRaiseRentDispute(r5, t, agreementId)
             ELSE IF fault = "cooldown" THEN [r4 EXCEPT !.ret = daysOverdue] ELSE r5

checkRentOverdueFirstDay(s, t, sender, agreementId) ==
    checkRentOverdueWith("threshold", s, t, sender, agreementId)

checkRentOverdueAfterActivation(s, t, sender, agreementId) ==
    checkRentOverdueWith("status", s, t, sender, agreementId)

checkRentOverdueUnrecorded(s, t, sender, agreementId) ==
    checkRentOverdueWith("cooldown", s, t, sender, agreementId)

checkRentOverdue(s, t, sender, agreementId) ==
    LET agreement == s.agreements[agreementId]
        r1 == Require(Begin(s), agreement.status = "Active", "Agreement not active")
        r2 == Require(r1, sender = agreement.tenant \/ sender = agreement.landlord
                          \/ sender = Admin, "Not authorized")
        r3 == Require(r2, t > s.lastOverdueCheck[agreementId] + 1 * Day,
                      "Cooldown: Check once per day")
        dueDate == agreement.nextRentDueDate
        graceEnd == dueDate + agreement.overdueGracePeriod
        r4 == Require(r3, t > graceEnd, "Still within grace period")
        daysOverdue == (t - graceEnd) \div (1 * Day)
        r5 == [r4 EXCEPT !.st.lastOverdueCheck[agreementId] = t, !.ret = daysOverdue]
    IN  IF r4.err # "" THEN r4
        ELSE IF daysOverdue >= 3 /\ agreement.status # "Disputed"
             THEN autoRaiseRentDispute(r5, t, agreementId)
             ELSE r5

\* releaseDeposit without the test that the lease has ended.
releaseDepositDuringLease(s, t, sender, agreementId) ==
    LET agreement == s.agreements[agreementId]
        r1 == Require(Begin(s), agreement.status = "Active"
                                \/ agreement.status = "Completed",
                      "Agreement not releasable")
        r2 == Require(r1, sender = agreement.tenant \/ sender = agreement.landlord
                          \/ sender = Admin, "Not authorized")
        r3 == Require(r2, t >= agreement.disputeDeadline, "Dispute period not ended")
        r5 == [r3 EXCEPT !.st.agreements[agreementId].status = "Completed"]
        platformFee == (agreement.depositAmount * s.platformFeePercent) \div 100
        landlordAmount == agreement.depositAmount - platformFee
        r6 == sendValue(r5, agreement.landlord, landlordAmount)
        r7 == sendValue(r6, PlatformWallet, platformFee)
    IN  IF r3.err # "" THEN r3
        ELSE mintReceipt(r7, This, t, agreement.tenant, agreement.landlord,
                         agreement.propertyId, agreement.depositAmount,
                         agreement.startDate, agreement.endDate,
                         agreement.metadataHash)

releaseDeposit(s, t, sender, agreementId) ==
    LET agreement == s.agreements[agreementId]
        r1 == Require(Begin(s), agreement.status = "Active"
                                \/ agreement.status = "Completed",
                      "Agreement not releasable")
        r2 == Require(r1, sender = agreement.tenant \/ sender = agreement.landlord
                          \/ sender = Admin, "Not authorized")
        r3 == Require(r2, t >= agreement.disputeDeadline, "Dispute period not ended")
        r4 == Require(r3, t >= agreement.endDate, "Lease not ended")
        r5 == [r4 EXCEPT !.st.agreements[agreementId].status = "Completed"]
        platformFee == (agreement.depositAmount * s.platformFeePercent) \div 100
        landlordAmount == agreement.depositAmount - platformFee
        r6 == sendValue(r5, agreement.landlord, landlordAmount)
        r7 == sendValue(r6, PlatformWallet, platformFee)
    IN  IF r4.err # "" THEN r4
        ELSE mintReceipt(r7, This, t, agreement.tenant, agreement.landlord,
                         agreement.propertyId, agreement.depositAmount,
                         agreement.startDate, agreement.endDate,
                         agreement.metadataHash)

\* raiseDispute without the test of the caller.
raiseDisputeByAnyone(s, t, sender, agreementId, reason, evidenceHash) ==
    LET agreement == s.agreements[agreementId]
        r1 == Require(Begin(s), agreement.status = "Active"
                                \/ agreement.status = "Pending",
                      "Agreement not disputable")
        r3 == Require(r1, reason # "", "Reason required")
    IN  IF r3.err # "" THEN r3
        ELSE [r3 EXCEPT !.st.agreements[agreementId].status = "Disputed",
                        !.st.disputes[agreementId] =
                            [agreementId |-> agreementId, initiator |-> sender,
                             reason |-> reason,
                             evidenceHashes |-> <<evidenceHash>>,
                             createdAt |-> t, resolved |-> FALSE,
                             winner |-> ZeroAddr, isRentDispute |-> FALSE]]

\* raiseDispute that also accepts an agreement that is already Disputed.
raiseDisputeAgain(s, t, sender, agreementId, reason, evidenceHash) ==
    LET agreement == s.agreements[agreementId]
        r1 == Require(Begin(s), agreement.status = "Active"
                                \/ agreement.status = "Pending"
                                \/ agreement.status = "Disputed",
                      "Agreement not disputable")
        r2 == Require(r1, sender = agreement.tenant \/ sender = agreement.landlord,
                      "Not authorized")
        r3 == Require(r2, reason # "", "Reason required")
    IN  IF r3.err # "" THEN r3
        ELSE [r3 EXCEPT !.st.agreements[agreementId].status = "Disputed",
                        !.st.disputes[agreementId] =
                            [agreementId |-> agreementId, initiator |-> sender,
                             reason |-> reason,
                             evidenceHashes |-> <<evidenceHash>>,
                             createdAt |-> t, resolved |-> FALSE,
                             winner |-> ZeroAddr, isRentDispute |-> FALSE]]

raiseDispute(s, t, sender, agreementId, reason, evidenceHash) ==
    LET agreement == s.agreements[agreementId]
        r1 == Require(Begin(s), agreement.status = "Active"
                                \/ agreement.status = "Pending",
                      "Agreement not disputable")
        r2 == Require(r1, sender = agreement.tenant \/ sender = agreement.landlord,
                      "Not authorized")
        r3 == Require(r2, reason # "", "Reason required")
    IN  IF r3.err # "" THEN r3
        ELSE [r3 EXCEPT !.st.agreements[agreementId].status = "Disputed",
                        !.st.disputes[agreementId] =
                            [agreementId |-> agreementId, initiator |-> sender,
                             reason |-> reason,
                             evidenceHashes |-> <<evidenceHash>>,
                             createdAt |-> t, resolved |-> FALSE,
                             winner |-> ZeroAddr, isRentDispute |-> FALSE]]

\* submitEvidence that puts the new reference in front of the earlier ones.
submitEvidenceInFront(s, t, sender, agreementId, evidenceHash) ==
    LET agreement == s.agreements[agreementId]
        dispute == s.disputes[agreementId]
        r1 == Require(Begin(s), agreement.status = "Disputed", "No active dispute")
        r2 == Require(r1, sender = agreement.tenant \/ sender = agreement.landlord,
                      "Not authorized")
        r3 == Require(r2, ~dispute.resolved, "Dispute already resolved")
        r4 == Require(r3, evidenceHash # "", "Evidence hash required")
    IN  IF r4.err # "" THEN r4
        ELSE [r4 EXCEPT !.st.disputes[agreementId].evidenceHashes =
                            <<evidenceHash>> \o @]

submitEvidence(s, t, sender, agreementId, evidenceHash) ==
    LET agreement == s.agreements[agreementId]
        dispute == s.disputes[agreementId]
        r1 == Require(Begin(s), agreement.status = "Disputed", "No active dispute")
        r2 == Require(r1, sender = agreement.tenant \/ sender = agreement.landlord,
                      "Not authorized")
        r3 == Require(r2, ~dispute.resolved, "Dispute already resolved")
        r4 == Require(r3, evidenceHash # "", "Evidence hash required")
    IN  IF r4.err # "" THEN r4
        ELSE [r4 EXCEPT !.st.disputes[agreementId].evidenceHashes =
                            Append(@, evidenceHash)]

\* resolveDispute that, finding for the landlord, puts the agreement back to
\* Active instead of completing it.
resolveDisputeReinstates(s, t, sender, agreementId, refundTenant) ==
    LET agreement == s.agreements[agreementId]
        dispute == s.disputes[agreementId]
        r0 == Require(Begin(s), sender = Admin, "OwnableUnauthorizedAccount")
        r1 == Require(r0, agreement.status = "Disputed", "Agreement not disputed")
        r2 == Require(r1, ~dispute.resolved, "Dispute already resolved")
        r3 == [r2 EXCEPT !.st.disputes[agreementId].resolved = TRUE]
    IN  IF r2.err # "" THEN r2
        ELSE IF refundTenant
             THEN sendValue(
                    [r3 EXCEPT !.st.disputes[agreementId].winner = agreement.tenant,
                               !.st.agreements[agreementId].status = "Terminated"],
                    agreement.tenant, agreement.depositAmount)
             ELSE [r3 EXCEPT !.st.disputes[agreementId].winner = agreement.landlord,
                             !.st.agreements[agreementId].status = "Active"]

\* resolveDispute that rounds the platform fee up instead of down.
resolveDisputeRoundsFeeUp(s, t, sender, agreementId, refundTenant) ==
    LET agreement == s.agreements[agreementId]
        dispute == s.disputes[agreementId]
        r0 == Require(Begin(s), sender = Admin, "OwnableUnauthorizedAccount")
        r1 == Require(r0, agreement.status = "Disputed", "Agreement not disputed")
        r2 == Require(r1, ~dispute.resolved, "Dispute already resolved")
        r3 == [r2 EXCEPT !.st.disputes[agreementId].resolved = TRUE]
        refundAmount == agreement.depositAmount
        platformFee ==
            (agreement.depositAmount * s.platformFeePercent + 99) \div 100
        landlordAmount == agreement.depositAmount - platformFee
    IN  IF r2.err # "" THEN r2
        ELSE IF refundTenant
             THEN sendValue(
                    [r3 EXCEPT !.st.disputes[agreementId].winner = agreement.tenant,
                               !.st.agreements[agreementId].status = "Terminated"],
                    agreement.tenant, refundAmount)
             ELSE sendValue(sendValue(
                    [r3 EXCEPT !.st.disputes[agreementId].winner = agreement.landlord,
                               !.st.agreements[agreementId].status = "Completed"],
                    agreement.landlord, landlordAmount),
                    PlatformWallet, platformFee)

\* resolveDispute that tests neither the status nor the resolved flag.
resolveDisputeRepeatable(s, t, sender, agreementId, refundTenant) ==
    LET agreement == s.agreements[agreementId]
        r2 == Require(Begin(s), sender = Admin, "OwnableUnauthorizedAccount")
        r3 == [r2 EXCEPT !.st.disputes[agreementId].resolved = TRUE]
        refundAmount == agreement.depositAmount
        platformFee == (agreement.depositAmount * s.platformFeePercent) \div 100
        landlordAmount == agreement.depositAmount - platformFee
    IN  IF r2.err # "" THEN r2
        ELSE IF refundTenant
             THEN sendValue(
                    [r3 EXCEPT !.st.disputes[agreementId].winner = agreement.tenant,
                               !.st.agreements[agreementId].status = "Terminated"],
                    agreement.tenant, refundAmount)
             ELSE sendValue(sendValue(
                    [r3 EXCEPT !.st.disputes[agreementId].winner = agreement.landlord,
                               !.st.agreements[agreementId].status = "Completed"],
                    agreement.landlord, landlordAmount),
                    PlatformWallet, platformFee)

resolveDispute(s, t, sender, agreementId, refundTenant) ==
    LET agreement == s.agreements[agreementId]
        dispute == s.disputes[agreementId]
        r0 == Require(Begin(s), sender = Admin, "OwnableUnauthorizedAccount")
        r1 == Require(r0, agreement.status = "Disputed", "Agreement not disputed")
        r2 == Require(r1, ~dispute.resolved, "Dispute already resolved")
        r3 == [r2 EXCEPT !.st.disputes[agreementId].resolved = TRUE]
        refundAmount == agreement.depositAmount
        platformFee == (agreement.depositAmount * s.platformFeePercent) \div 100
        landlordAmount == agreement.depositAmount - platformFee
    IN  IF r2.err # "" THEN r2
        ELSE IF refundTenant
             THEN sendValue(
                    [r3 EXCEPT !.st.disputes[agreementId].winner = agreement.tenant,
                               !.st.agreements[agreementId].status = "Terminated"],
                    agreement.tenant, refundAmount)
             ELSE sendValue(sendValue(
                    [r3 EXCEPT !.st.disputes[agreementId].winner = agreement.landlord,
                               !.st.agreements[agreementId].status = "Completed"],
                    agreement.landlord, landlordAmount),
                    PlatformWallet, platformFee)

\* cancelAgreement without its require on the status.
cancelAgreementAnyStatus(s, t, sender, agreementId) ==
    LET agreement == s.agreements[agreementId]
        r2 == Require(Begin(s), sender = agreement.tenant, "Only tenant can cancel")
    IN  IF r2.err # "" THEN r2
        ELSE sendValue([r2 EXCEPT !.st.agreements[agreementId].status = "Cancelled"],
                       agreement.tenant, agreement.depositAmount)

\* cancelAgreement that keeps the platform fee out of the refund.
cancelAgreementLessFee(s, t, sender, agreementId) ==
    LET agreement == s.agreements[agreementId]
        r1 == Require(Begin(s), agreement.status = "Pending", "Agreement not pending")
        r2 == Require(r1, sender = agreement.tenant, "Only tenant can cancel")
        platformFee == (agreement.depositAmount * s.platformFeePercent) \div 100
    IN  IF r2.err # "" THEN r2
        ELSE sendValue(
                 sendValue([r2 EXCEPT !.st.agreements[agreementId].status = "Cancelled"],
                           agreement.tenant, agreement.depositAmount - platformFee),
                 PlatformWallet, platformFee)

cancelAgreement(s, t, sender, agreementId) ==
    LET agreement == s.agreements[agreementId]
        r1 == Require(Begin(s), agreement.status = "Pending", "Agreement not pending")
        r2 == Require(r1, sender = agreement.tenant, "Only tenant can cancel")
    IN  IF r2.err # "" THEN r2
        ELSE sendValue([r2 EXCEPT !.st.agreements[agreementId].status = "Cancelled"],
                       agreement.tenant, agreement.depositAmount)

\* terminateAgreement that shares out the deposit only, the rent paid having
\* been forwarded when it was paid.
terminateAgreementDepositOnly(s, t, sender, agreementId, proRatedRefund) ==
    LET agreement == s.agreements[agreementId]
        r0 == Require(Begin(s), sender = Admin, "OwnableUnauthorizedAccount")
        r1 == Require(r0, agreement.status = "Active" \/ agreement.status = "Disputed",
                      "Invalid status for termination")
        r2 == Require(r1, proRatedRefund <= agreement.depositAmount
                                            + agreement.totalRentPaid,
                      "Refund exceeds total paid")
        r3 == [r2 EXCEPT !.st.agreements[agreementId].status = "Terminated"]
        r4 == IF proRatedRefund > 0
              THEN sendValue(r3, agreement.tenant, proRatedRefund)
              ELSE r3
        remaining == agreement.depositAmount - proRatedRefund
        platformFee == (remaining * s.platformFeePercent) \div 100
        landlordAmount == remaining - platformFee
    IN  IF r2.err # "" THEN r2
        ELSE IF remaining > 0
             THEN sendValue(sendValue(r4, agreement.landlord, landlordAmount),
                            PlatformWallet, platformFee)
             ELSE r4

terminateAgreement(s, t, sender, agreementId, proRatedRefund) ==
    LET agreement == s.agreements[agreementId]
        r0 == Require(Begin(s), sender = Admin, "OwnableUnauthorizedAccount")
        r1 == Require(r0, agreement.status = "Active" \/ agreement.status = "Disputed",
                      "Invalid status for termination")
        r2 == Require(r1, proRatedRefund <= agreement.depositAmount
                                            + agreement.totalRentPaid,
                      "Refund exceeds total paid")
        r3 == [r2 EXCEPT !.st.agreements[agreementId].status = "Terminated"]
        r4 == IF proRatedRefund > 0
              THEN sendValue(r3, agreement.tenant, proRatedRefund)
              ELSE r3
        remaining == agreement.depositAmount + agreement.totalRentPaid - proRatedRefund
        platformFee == (remaining * s.platformFeePercent) \div 100
        landlordAmount == remaining - platformFee
    IN  IF r2.err # "" THEN r2
        ELSE IF remaining > 0
             THEN sendValue(sendValue(r4, agreement.landlord, landlordAmount),
                            PlatformWallet, platformFee)
             ELSE r4

\* ------------------------------------------------------------ re-entrancy
\* payRent up to the moment its transfer to the landlord hands control to
\* the landlord: every write to the store is made, the gas refund and the
\* excess are sent, and the landlord has the rent.
payRentToLandlord(s, t, sender, value, gasCost, agreementId) ==
    LET agreement == s.agreements[agreementId]
        r0 == Require(BeginPayable(s, value), ~s.paused, "EnforcedPause")
        r1 == Require(r0, agreement.status = "Active", "Agreement not active")
        r2 == Require(r1, sender = agreement.tenant, "Not the tenant")
        r3 == Require(r2, value >= agreement.monthlyRent, "Insufficient rent amount")
        r4 == Require(r3, t <= agreement.endDate, "Lease has ended")
        periodStart == agreement.nextRentDueDate - agreement.rentInterval
        periodEnd == agreement.nextRentDueDate
        r5 == [r4 EXCEPT
                !.st.rentPayments[agreementId] = Append(@,
                    [agreementId |-> agreementId, amount |-> value,
                     paidDate |-> t, periodStart |-> periodStart,
                     periodEnd |-> periodEnd, status |-> "Paid"]),
                !.st.agreements[agreementId].totalRentPaid = @ + value,
                !.st.agreements[agreementId].nextRentDueDate =
                    @ + agreement.rentInterval]
        processingFee == (value * s.rentProcessingFeePercent) \div 100
        landlordAmount == value - processingFee
        gasRefund == IF gasCost > s.gasSubsidyPool THEN s.gasSubsidyPool ELSE gasCost
        r6 == IF s.isGasSubsidized[sender] /\ s.gasSubsidyPool > 0
              THEN sendValue([r5 EXCEPT !.st.gasSubsidyPool = @ - gasRefund],
                             sender, gasRefund)
              ELSE r5
        excess == value - agreement.monthlyRent
        r7 == IF excess > 0 THEN sendValue(r6, sender, excess) ELSE r6
    IN  IF r4.err # "" THEN r4
        ELSE sendValue(r7, agreement.landlord, landlordAmount)

\* The rest of that payRent, from the call r as the landlord's code left it:
\* the fee goes to the platform wallet and the proof is minted; s is the
\* storage at entry, from which the fee and the period were computed.
payRentFromLandlord(r, s, t, value, agreementId, metadataHash) ==
    LET agreement == s.agreements[agreementId]
        periodStart == agreement.nextRentDueDate - agreement.rentInterval
        periodEnd == agreement.nextRentDueDate
        processingFee == (value * s.rentProcessingFeePercent) \div 100
        r9 == sendValue(r, PlatformWallet, processingFee)
    IN  IF r.err # "" THEN r
        ELSE mintRentPaymentProof(r9, This, r.st.agreements[agreementId].tenant,
                                  r.st.agreements[agreementId].landlord,
                                  agreementId, value, t, periodStart, periodEnd,
                                  metadataHash)

\* A function marked nonReentrant, entered on the storage m while a
\* nonReentrant function is in progress.
nonReentrantEntered(m) == Revert(Begin(m), "ReentrancyGuardReentrantCall")

\* ------------------------------------------------------------ views
\* calculateFeeBreakdown with the rent fee taken at the platform's rate on
\* deposits.
calculateFeeBreakdownOneRate(s, agreementId) ==
    LET agreement == s.agreements[agreementId]
        depositFee == (agreement.depositAmount * s.platformFeePercent) \div 100
        rentFees == (agreement.totalRentPaid * s.platformFeePercent) \div 100
        landlordNet == (agreement.depositAmount - depositFee)
                       + (agreement.totalRentPaid - rentFees)
    IN  [depositAmount |-> agreement.depositAmount,
         totalRentPaid |-> agreement.totalRentPaid,
         platformFeeOnDeposit |-> depositFee,
         platformFeeOnRent |-> rentFees,
         totalGasSponsored |-> 0,
         netToLandlord |-> landlordNet,
         netToTenant |-> 0]

\* calculateFeeBreakdown, a view: the FeeBreakdown it returns, without the
\* listingFee it reads from the property contract.
calculateFeeBreakdown(s, agreementId) ==
    LET agreement == s.agreements[agreementId]
        depositFee == (agreement.depositAmount * s.platformFeePercent) \div 100
        rentFees == (agreement.totalRentPaid * s.rentProcessingFeePercent) \div 100
        landlordNet == (agreement.depositAmount - depositFee)
                       + (agreement.totalRentPaid - rentFees)
    IN  [depositAmount |-> agreement.depositAmount,
         totalRentPaid |-> agreement.totalRentPaid,
         platformFeeOnDeposit |-> depositFee,
         platformFeeOnRent |-> rentFees,
         totalGasSponsored |-> 0,
         netToLandlord |-> landlordNet,
         netToTenant |-> 0]

\* _emitFeeBreakdown: the arguments of the FeeBreakdownCalculated event.
emitFeeBreakdown(s, agreementId) ==
    LET agreement == s.agreements[agreementId]
        depositFee == (agreement.depositAmount * s.platformFeePercent) \div 100
        rentFees == (agreement.totalRentPaid * s.rentProcessingFeePercent) \div 100
        totalPlatformFees == depositFee + rentFees
        landlordNet == (agreement.depositAmount - depositFee)
                       + (agreement.totalRentPaid - rentFees)
    IN  [landlordNet |-> landlordNet, platformTotal |-> totalPlatformFees]

\* ------------------------------------------------------------ admin
grantGasSubsidy(s, sender, tenant) ==
    LET r0 == Require(Begin(s), sender = Admin, "OwnableUnauthorizedAccount")
        r1 == Require(r0, tenant # ZeroAddr, "Invalid tenant address")
    IN  IF r1.err # "" THEN r1 ELSE [r1 EXCEPT !.st.isGasSubsidized[tenant] = TRUE]

fundGasSubsidy(s, sender, value) ==
    LET r1 == Require(BeginPayable(s, value), value > 0, "Must send funds")
    IN  IF r1.err # "" THEN r1 ELSE [r1 EXCEPT !.st.gasSubsidyPool = @ + value]

\* updatePlatformFee without the cap.
updatePlatformFeeUncapped(s, sender, newFeePercent) ==
    LET r0 == Require(Begin(s), sender = Admin, "OwnableUnauthorizedAccount")
    IN  IF r0.err # "" THEN r0 ELSE [r0 EXCEPT !.st.platformFeePercent = newFeePercent]

updatePlatformFee(s, sender, newFeePercent) ==
    LET r0 == Require(Begin(s), sender = Admin, "OwnableUnauthorizedAccount")
        r1 == Require(r0, newFeePercent <= 5, "Fee too high")
    IN  IF r1.err # "" THEN r1 ELSE [r1 EXCEPT !.st.platformFeePercent = newFeePercent]

updateRentProcessingFee(s, sender, newFeePercent) ==
    LET r0 == Require(Begin(s), sender = Admin, "OwnableUnauthorizedAccount")
        r1 == Require(r0, newFeePercent <= 3, "Fee too high")
    IN  IF r1.err # "" THEN r1
        ELSE [r1 EXCEPT !.st.rentProcessingFeePercent = newFeePercent]

updateDisputePeriod(s, sender, newPeriod) ==
    LET r0 == Require(Begin(s), sender = Admin, "OwnableUnauthorizedAccount")
        r1 == Require(r0, newPeriod >= 1 * Day /\ newPeriod <= 30 * Day, "Invalid period")
    IN  IF r1.err # "" THEN r1 ELSE [r1 EXCEPT !.st.disputePeriod = newPeriod]

updateGracePeriod(s, sender, newPeriod) ==
    LET r0 == Require(Begin(s), sender = Admin, "OwnableUnauthorizedAccount")
        r1 == Require(r0, newPeriod >= 1 * Day /\ newPeriod <= 7 * Day,
                      "Invalid grace period")
    IN  IF r1.err # "" THEN r1 ELSE [r1 EXCEPT !.st.defaultGracePeriod = newPeriod]

pause(s, sender) ==
    LET r0 == Require(Begin(s), sender = Admin, "OwnableUnauthorizedAccount")
        r1 == Require(r0, ~s.paused, "EnforcedPause")
    IN  IF r1.err # "" THEN r1 ELSE [r1 EXCEPT !.st.paused = TRUE]

\* RentalReceipt.setMinter; the deployer (Admin) holds DEFAULT_ADMIN_ROLE.
setMinter(s, sender, escrowContract) ==
    LET r0 == Require(Begin(s), sender = Admin, "AccessControlUnauthorizedAccount")
        r1 == Require(r0, escrowContract # ZeroAddr, "Invalid escrow address")
    IN  IF r1.err # "" THEN r1 ELSE [r1 EXCEPT !.st.minters = @ \cup {escrowContract}]

\* PropertyVerification.submitProperty with kycLevel 1 and the listing fee
\* paid; the oracle's own fee accounting is outside the escrow.
submitProperty(s, sender) ==
    LET propertyId == s.nextPropertyId
    IN  [Begin(s) EXCEPT
            !.st.nextPropertyId = @ + 1,
            !.st.properties[propertyId] =
                [owner |-> sender, isVerified |-> FALSE, isActive |-> TRUE],
            !.ret = propertyId]

verifyProperty(s, sender, propertyId) ==
    LET property == s.properties[propertyId]
        r0 == Require(Begin(s), sender = Admin, "OwnableUnauthorizedAccount")
        r1 == Require(r0, property.owner # ZeroAddr, "Property does not exist")
        r2 == Require(r1, ~property.isVerified, "Property already verified")
        r3 == Require(r2, property.isActive, "Property is deactivated")
    IN  IF r3.err # "" THEN r3 ELSE [r3 EXCEPT !.st.properties[propertyId].isVerified = TRUE]

deactivateProperty(s, sender, propertyId) ==
    LET property == s.properties[propertyId]
        r0 == Require(Begin(s), sender = Admin, "OwnableUnauthorizedAccount")
        r1 == Require(r0, property.owner # ZeroAddr, "Property does not exist")
        r2 == Require(r1, property.isActive, "Property already deactivated")
    IN  IF r2.err # "" THEN r2 ELSE [r2 EXCEPT !.st.properties[propertyId].isActive = FALSE]

\* ------------------------------------------------------------ state machine
\* The inputs the calls are tried with.
Deposits == {0, 1000}
Rents == {0, 100}
Intervals == {Day - 1, Day, 365 * Day, 365 * Day + 1}
LeaseLengths == {0, 2 * Day}
Hashes == {"", "QmHash"}
Payments == {99, 100, 150}
GasCosts == {5}
Reasons == {"", "damage"}
Refunds == {0, 500, 1000, 1001}
PoolFunds == {0, 8}
NewPlatformFees == {5, 6}
NewRentFees == {3, 4}
NewDisputePeriods == {Day, 30 * Day + 1}
NewGracePeriods == {Day - 1, Day}
Callers == {Admin, "alice"}
\* The clock moves in steps of two and a half days.
TimeStep == (5 * Day) \div 2

\* The agreements calls are made on: those created so far, or slot 1 while
\* there is none.
Live == IF nextAgreementId = 1 THEN {1} ELSE 1..(nextAgreementId - 1)

\* createAgreement is tried with terms that pass every require, and with the
\* same terms with one input changed at a time.
GoodTerms(t) ==
    [sender |-> "alice", propertyId |-> 1, landlord |-> "bob", value |-> 1000,
     monthlyRent |-> 100, rentInterval |-> Day, startDate |-> t,
     endDate |-> t + 2 * Day, metadataHash |-> "QmHash"]

Terms(t) ==
    {[GoodTerms(t) EXCEPT !.sender = a] : a \in {"alice", "bob"}}
    \cup {[GoodTerms(t) EXCEPT !.landlord = a] : a \in Users}
    \cup {[GoodTerms(t) EXCEPT !.value = v] : v \in Deposits}
    \cup {[GoodTerms(t) EXCEPT !.monthlyRent = v] : v \in Rents}
    \cup {[GoodTerms(t) EXCEPT !.rentInterval = v] : v \in Intervals \ {365 * Day}}
    \cup {[GoodTerms(t) EXCEPT !.startDate = v] : v \in {t - 1} \cap Nat}
    \cup {[GoodTerms(t) EXCEPT !.endDate = t + v] : v \in LeaseLengths}
    \cup {[GoodTerms(t) EXCEPT !.metadataHash = v] : v \in Hashes}

create(s, t, in) ==
    createAgreement(s, t, in.sender, in.value, in.propertyId, in.landlord,
                    in.monthlyRent, in.rentInterval, in.startDate, in.endDate,
                    in.metadataHash)

\* Calls that take the caller and the agreement only.
PartyCalls == [sender : Users, id : Live]

\* payRent is tried by the tenant paying more than the rent, and with that
\* call with one input changed at a time.
GoodRent == [sender |-> "alice", value |-> 150, metadataHash |-> "QmHash"]

RentInputs ==
    {[GoodRent EXCEPT !.sender = a] : a \in Users}
    \cup {[GoodRent EXCEPT !.value = v] : v \in Payments}
    \cup {[GoodRent EXCEPT !.metadataHash = v] : v \in Hashes}

RentCalls ==
    {[sender |-> in.sender, value |-> in.value, metadataHash |-> in.metadataHash,
      gasCost |-> g, id |-> i] : in \in RentInputs, g \in GasCosts, i \in Live}

rent(s, t, c) == payRent(s, t, c.sender, c.value, c.gasCost, c.id, c.metadataHash)

DisputeCalls == [sender : Users, id : Live, reason : Reasons]

EvidenceCalls == [sender : Users, id : Live, evidenceHash : Hashes]

ResolveCalls == [sender : Users, id : Live, refundTenant : BOOLEAN]

\* terminateAgreement is tried by the admin with every refund, and by the
\* other users with a refund of half the deposit.
TerminateCalls ==
    [sender : {Admin}, id : Live, proRatedRefund : Refunds]
    \cup [sender : Users, id : Live, proRatedRefund : {500}]

storage == <<nextAgreementId, agreements, disputes, rentPayments,
             tenantAgreements, landlordAgreements, lastOverdueCheck,
             platformFeePercent, rentProcessingFeePercent, disputePeriod,
             defaultGracePeriod, gasSubsidyPool, isGasSubsidized, paused,
             balance, nextPropertyId, properties, minters, receipts>>

\* The block that carries the call r: its outcome becomes the storage.
Commit(r) ==
    LET s == r.st
    IN  /\ nextAgreementId' = s.nextAgreementId
        /\ agreements' = s.agreements
        /\ disputes' = s.disputes
        /\ rentPayments' = s.rentPayments
        /\ tenantAgreements' = s.tenantAgreements
        /\ landlordAgreements' = s.landlordAgreements
        /\ lastOverdueCheck' = s.lastOverdueCheck
        /\ platformFeePercent' = s.platformFeePercent
        /\ rentProcessingFeePercent' = s.rentProcessingFeePercent
        /\ disputePeriod' = s.disputePeriod
        /\ defaultGracePeriod' = s.defaultGracePeriod
        /\ gasSubsidyPool' = s.gasSubsidyPool
        /\ isGasSubsidized' = s.isGasSubsidized
        /\ paused' = s.paused
        /\ balance' = s.balance
        /\ nextPropertyId' = s.nextPropertyId
        /\ properties' = s.properties
        /\ minters' = s.minters
        /\ receipts' = s.receipts

\* The value received for each agreement once the payable call r on the
\* agreement id, carrying `value`, is over.
PaidInAfter(r, id, value) ==
    IF r.err = "" THEN [paidIn EXCEPT ![id] = @ + value] ELSE paidIn

\* A call on an agreement.
Call(r) ==
    /\ Commit(r)
    /\ UNCHANGED <<now, returned, configCalls, poolFunded, poolPaidOut, paidIn,
                   paidOut>>

\* A call on the agreement id that may send value: what it sends is counted
\* against that agreement.
CallOn(r, id) ==
    /\ Commit(r)
    /\ paidOut' = [paidOut EXCEPT ![id] = @ + Sent(r.xfers)]
    /\ UNCHANGED <<now, returned, configCalls, poolFunded, poolPaidOut, paidIn>>

\* A configuration call counts against MaxConfigCalls when it succeeds.
Configure(r) ==
    /\ configCalls < MaxConfigCalls
    /\ Commit(r)
    /\ configCalls' = IF r.err = "" THEN configCalls + 1 ELSE configCalls
    /\ UNCHANGED <<now, returned, poolFunded, poolPaidOut, paidIn, paidOut>>

\* The escrow after its constructor.
InitEscrow ==
    /\ now = 0
    /\ nextAgreementId = 1
    /\ agreements = [i \in AgreementIds |-> ZeroAgreement]
    /\ disputes = [i \in AgreementIds |-> ZeroDispute]
    /\ rentPayments = [i \in AgreementIds |-> <<>>]
    /\ tenantAgreements = [a \in Users |-> <<>>]
    /\ landlordAgreements = [a \in Users |-> <<>>]
    /\ lastOverdueCheck = [i \in AgreementIds |-> 0]
    /\ platformFeePercent = 2
    /\ rentProcessingFeePercent = 1
    /\ disputePeriod = 7 * Day
    /\ defaultGracePeriod = 3 * Day
    /\ gasSubsidyPool = 0
    /\ isGasSubsidized = [a \in Users |-> FALSE]
    /\ paused = FALSE
    /\ balance = 0
    /\ poolFunded = 0
    /\ poolPaidOut = 0
    /\ paidIn = [i \in AgreementIds |-> 0]
    /\ paidOut = [i \in AgreementIds |-> 0]

\* The three contracts after their constructors.
Init ==
    /\ InitEscrow
    /\ nextPropertyId = 1
    /\ properties = [p \in PropertyIds |-> ZeroProperty]
    /\ minters = {}
    /\ receipts = <<>>
    /\ returned = <<>>
    /\ configCalls = 0

Tick ==
    /\ now + TimeStep <= MaxTicks * TimeStep
    /\ now' = now + TimeStep
    /\ UNCHANGED <<storage, returned, configCalls, poolFunded, poolPaidOut, paidIn,
                   paidOut>>

\* createAgreement while fewer than `most` agreements exist.
Create(most) ==
    \E in \in Terms(now) :
        /\ nextAgreementId <= most
        /\ LET r == create(World, now, in)
           IN  /\ Commit(r)
               /\ returned' = IF r.err = "" THEN Append(returned, r.ret)
                              ELSE returned
               /\ paidIn' = PaidInAfter(r, r.ret, in.value)
        /\ UNCHANGED <<now, configCalls, poolFunded, poolPaidOut, paidOut>>

CreateAgreement == Create(MaxAgreements)

TenantConfirm ==
    \E c \in PartyCalls : Call(tenantConfirm(World, now, c.sender, c.id))

LandlordConfirm ==
    \E c \in PartyCalls : Call(landlordConfirm(World, now, c.sender, c.id))

\* What the payRent call c with outcome r sent its caller out of the subsidy
\* pool: what the caller was sent beyond the excess of the payment over the
\* rent.
SubsidyPaid(r, c) ==
    IF r.err # "" THEN 0
    ELSE Received(r.xfers, c.sender) - (c.value - agreements[c.id].monthlyRent)

PayRent ==
    \E c \in RentCalls :
        /\ Len(rentPayments[c.id]) < MaxPayments
        /\ LET r == rent(World, now, c)
           IN  /\ Commit(r)
               /\ poolPaidOut' = poolPaidOut + SubsidyPaid(r, c)
               /\ paidIn' = PaidInAfter(r, c.id, c.value)
               /\ paidOut' = [paidOut EXCEPT
                                 ![c.id] = @ + Sent(r.xfers) - SubsidyPaid(r, c)]
        /\ UNCHANGED <<now, returned, configCalls, poolFunded>>

CheckRentOverdue ==
    \E c \in PartyCalls : Call(checkRentOverdue(World, now, c.sender, c.id))

\* The length of a lease on which rent can still be paid after the due date
\* following the payment and its grace period have passed.
LongLease == 8 * Day

\* createAgreement with terms that pass every require, for such a lease.
CreateLongLease ==
    /\ nextAgreementId <= MaxAgreements
    /\ LET r == create(World, now, [GoodTerms(now) EXCEPT !.endDate = now + LongLease])
       IN  /\ Commit(r)
           /\ returned' = IF r.err = "" THEN Append(returned, r.ret) ELSE returned
           /\ paidIn' = PaidInAfter(r, r.ret, GoodTerms(now).value)
    /\ UNCHANGED <<now, configCalls, poolFunded, poolPaidOut, paidOut>>

\* The outcome of every call on the agreement id that the recipient `who` of
\* a transfer can make from its code while the transfer is in progress, on
\* the storage m the transfer finds: the functions marked nonReentrant
\* (createAgreement, tenantConfirm, landlordConfirm, payRent, releaseDeposit,
\* raiseDispute, resolveDispute, cancelAgreement, terminateAgreement) are
\* stopped by the guard, checkRentOverdue and submitEvidence are not marked
\* and run.
NestedAttempts(m, t, who, id) ==
    {nonReentrantEntered(m)}
    \cup {checkRentOverdue(m, t, who, id)}
    \cup {submitEvidence(m, t, who, id, e) : e \in Hashes}

\* payRent during whose transfer to the landlord the landlord's code makes a
\* call on the same agreement that succeeds; payRent then runs to its end on
\* the storage that call left.
PayRentReentered ==
    \E c \in RentCalls :
        /\ Len(rentPayments[c.id]) < MaxPayments
        /\ LET m == payRentToLandlord(World, now, c.sender, c.value, c.gasCost, c.id)
           IN  \E n \in NestedAttempts(m.st, now, agreements[c.id].landlord, c.id) :
                   /\ m.err = ""
                   /\ n.err = ""
                   /\ LET r == payRentFromLandlord([m EXCEPT !.st = n.st], World,
                                                   now, c.value, c.id, c.metadataHash)
                      IN  /\ Commit(r)
                          /\ poolPaidOut' = poolPaidOut + SubsidyPaid(r, c)
                          /\ paidIn' = PaidInAfter(r, c.id, c.value)
                          /\ paidOut' = [paidOut EXCEPT
                                 ![c.id] = @ + Sent(r.xfers) - SubsidyPaid(r, c)]
        /\ UNCHANGED <<now, returned, configCalls, poolFunded>>

ReleaseDeposit ==
    \E c \in PartyCalls :
        \E r \in {releaseDeposit(World, now, c.sender, c.id)} : CallOn(r, c.id)

RaiseDispute ==
    \E c \in DisputeCalls :
        Call(raiseDispute(World, now, c.sender, c.id, c.reason, "QmEvidence"))

SubmitEvidence ==
    \E c \in EvidenceCalls :
        /\ Len(disputes[c.id].evidenceHashes) < MaxEvidence
        /\ Call(submitEvidence(World, now, c.sender, c.id, c.evidenceHash))

ResolveDispute ==
    \E c \in ResolveCalls :
        \E r \in {resolveDispute(World, now, c.sender, c.id, c.refundTenant)} :
            CallOn(r, c.id)

CancelAgreement ==
    \E c \in PartyCalls : CallOn(cancelAgreement(World, now, c.sender, c.id), c.id)

TerminateAgreement ==
    \E c \in TerminateCalls :
        \E r \in {terminateAgreement(World, now, c.sender, c.id, c.proRatedRefund)} :
            CallOn(r, c.id)

GrantGasSubsidy ==
    \E sender \in Callers, tenant \in {"alice", ZeroAddr} :
        Configure(grantGasSubsidy(World, sender, tenant))

FundGasSubsidy ==
    \E sender \in Callers, value \in PoolFunds :
        /\ gasSubsidyPool + value <= MaxPool
        /\ configCalls < MaxConfigCalls
        /\ LET r == fundGasSubsidy(World, sender, value)
           IN  /\ Commit(r)
               /\ configCalls' = IF r.err = "" THEN configCalls + 1 ELSE configCalls
               /\ poolFunded' = IF r.err = "" THEN poolFunded + value ELSE poolFunded
        /\ UNCHANGED <<now, returned, poolPaidOut, paidIn, paidOut>>

UpdatePlatformFee ==
    \E sender \in Callers, newFeePercent \in NewPlatformFees :
        Configure(updatePlatformFee(World, sender, newFeePercent))

UpdateRentProcessingFee ==
    \E sender \in Callers, newFeePercent \in NewRentFees :
        Configure(updateRentProcessingFee(World, sender, newFeePercent))

UpdateDisputePeriod ==
    \E sender \in Callers, newPeriod \in NewDisputePeriods :
        Configure(updateDisputePeriod(World, sender, newPeriod))

UpdateGracePeriod ==
    \E sender \in Callers, newPeriod \in NewGracePeriods :
        Configure(updateGracePeriod(World, sender, newPeriod))

Pause ==
    \E sender \in Callers : Configure(pause(World, sender))

DeactivateProperty ==
    \E sender \in Callers, propertyId \in PropertyIds :
        Configure(deactivateProperty(World, sender, propertyId))

SetMinter ==
    \E sender \in Callers, escrowContract \in {This, ZeroAddr} :
        Call(setMinter(World, sender, escrowContract))

\* The addresses setMinter is tried with: the escrow, another account and
\* the zero address.
MinterInputs == {This, "alice", ZeroAddr}

SetAnyMinter ==
    \E sender \in Callers, account \in MinterInputs :
        Call(setMinter(World, sender, account))

\* mintRentPaymentProof called on the receipt contract directly by an
\* account, for a payment of 100 on agreement 1.
MintDirectly ==
    \E caller \in Users :
        /\ Len(receipts) < MaxPayments
        /\ Call(mintRentPaymentProof(Begin(World), caller, "alice", "bob", 1,
                                     100, now, 0, Day, "QmHash"))

SubmitProperty ==
    \E sender \in {"bob"} :
        /\ nextPropertyId <= MaxProperties
        /\ Call(submitProperty(World, sender))

VerifyProperty ==
    \E sender \in Callers, propertyId \in PropertyIds :
        Call(verifyProperty(World, sender, propertyId))

\* One agreement through its whole life, the clock and the wiring of the
\* three contracts, under the settings of the constructor.
Next ==
    \/ Tick
    \/ CreateAgreement
    \/ TenantConfirm
    \/ LandlordConfirm
    \/ PayRent
    \/ CheckRentOverdue
    \/ ReleaseDeposit
    \/ RaiseDispute
    \/ SubmitEvidence
    \/ ResolveDispute
    \/ CancelAgreement
    \/ TerminateAgreement
    \/ SetMinter
    \/ SubmitProperty
    \/ VerifyProperty

Spec == Init /\ [][Next]_vars

\* The settings an agreement's creation and dates depend on, changed by the
\* admin before and between the calls that create and activate an agreement.
NextSettings ==
    \/ Tick
    \/ CreateAgreement
    \/ TenantConfirm
    \/ LandlordConfirm
    \/ CancelAgreement
    \/ UpdateDisputePeriod
    \/ UpdateGracePeriod
    \/ Pause
    \/ DeactivateProperty
    \/ SubmitProperty
    \/ VerifyProperty

SpecSettings == Init /\ [][NextSettings]_vars

\* Several agreements side by side at one instant, from a deployment whose
\* property is verified: creation, confirmation, cancellation, disputes and
\* termination.
InitIds ==
    /\ InitEscrow
    /\ nextPropertyId = 2
    /\ properties = [p \in PropertyIds |->
                        [owner |-> "bob", isVerified |-> TRUE, isActive |-> TRUE]]
    /\ minters = {This}
    /\ receipts = <<>>
    /\ returned = <<>>
    /\ configCalls = 0

CreateMany == Create(MaxIds)

NextIds ==
    \/ CreateMany
    \/ TenantConfirm
    \/ LandlordConfirm
    \/ RaiseDispute
    \/ ResolveDispute
    \/ CancelAgreement
    \/ TerminateAgreement

SpecIds == InitIds /\ [][NextIds]_vars

\* The fee rates, the dispute period and the gas subsidy, changed by the admin
\* before and between the calls that move value: rent payments, the release
\* of the deposit and termination, on one agreement from a deployment whose
\* property is verified.
NextFees ==
    \/ Tick
    \/ CreateAgreement
    \/ TenantConfirm
    \/ LandlordConfirm
    \/ PayRent
    \/ ReleaseDeposit
    \/ TerminateAgreement
    \/ UpdatePlatformFee
    \/ UpdateRentProcessingFee
    \/ UpdateDisputePeriod
    \/ GrantGasSubsidy
    \/ FundGasSubsidy

SpecFees == InitIds /\ [][NextFees]_vars

\* Two agreements side by side under the clock, from a deployment whose
\* property is verified: creation, confirmation, rent and the overdue check.
NextOverdue ==
    \/ Tick
    \/ CreateMany
    \/ TenantConfirm
    \/ LandlordConfirm
    \/ PayRent
    \/ CheckRentOverdue

SpecOverdue == InitIds /\ [][NextOverdue]_vars

\* Two agreements side by side at one instant, from a deployment whose
\* property is verified, with the platform fee changed by the admin:
\* creation, confirmation, rent, disputes and termination.
NextPayouts ==
    \/ CreateMany
    \/ TenantConfirm
    \/ LandlordConfirm
    \/ PayRent
    \/ RaiseDispute
    \/ TerminateAgreement
    \/ UpdatePlatformFee

SpecPayouts == InitIds /\ [][NextPayouts]_vars

\* Deposits of which two and five percent are and are not whole numbers.
UnevenDeposits == {1000, 1030}

\* createAgreement with terms that pass every require and one of these
\* deposits, while fewer than `most` agreements exist.
CreateWithDeposit(most) ==
    \E v \in UnevenDeposits :
        /\ nextAgreementId <= most
        /\ LET r == create(World, now, [GoodTerms(now) EXCEPT !.value = v])
           IN  /\ Commit(r)
               /\ returned' = IF r.err = "" THEN Append(returned, r.ret)
                              ELSE returned
               /\ paidIn' = PaidInAfter(r, r.ret, v)
        /\ UNCHANGED <<now, configCalls, poolFunded, poolPaidOut, paidOut>>

CreateUneven == CreateWithDeposit(MaxIds)

CreateOneUneven == CreateWithDeposit(MaxAgreements)

\* Two agreements side by side at one instant, from a deployment whose
\* property is verified, with the platform fee changed by the admin:
\* creation, confirmation, and the life of a dispute from its raising
\* through added evidence to its resolution.
NextDisputes ==
    \/ CreateUneven
    \/ TenantConfirm
    \/ LandlordConfirm
    \/ RaiseDispute
    \/ SubmitEvidence
    \/ ResolveDispute
    \/ UpdatePlatformFee

SpecDisputes == InitIds /\ [][NextDisputes]_vars

\* One agreement at one instant, from a deployment whose property is
\* verified, with a deposit of which the fee is or is not a whole number:
\* creation, confirmation and rent, with both fee rates changed by the
\* admin.
NextBreakdown ==
    \/ CreateOneUneven
    \/ TenantConfirm
    \/ LandlordConfirm
    \/ PayRent
    \/ UpdatePlatformFee
    \/ UpdateRentProcessingFee

SpecBreakdown == InitIds /\ [][NextBreakdown]_vars

\* One agreement with a long lease under the clock, from a deployment whose
\* property is verified: creation, confirmation, the overdue check, and rent
\* paid to a landlord whose code does or does not call back.
NextReentry ==
    \/ Tick
    \/ CreateLongLease
    \/ TenantConfirm
    \/ LandlordConfirm
    \/ PayRent
    \/ PayRentReentered
    \/ CheckRentOverdue

SpecReentry == InitIds /\ [][NextReentry]_vars

\* The receipt contract and who may mint on it, with one agreement on which
\* rent is paid: the wiring of the three contracts, creation, confirmation,
\* rent, and proofs minted by accounts calling the receipt contract
\* themselves.
NextLedger ==
    \/ SubmitProperty
    \/ VerifyProperty
    \/ SetAnyMinter
    \/ MintDirectly
    \/ CreateAgreement
    \/ TenantConfirm
    \/ LandlordConfirm
    \/ PayRent

SpecLedger == Init /\ [][NextLedger]_vars


\* Two agreements that run to the end of their lease, and the release of
\* their deposits, from a deployment whose property is verified.
NextRelease ==
    \/ Tick
    \/ CreateUneven
    \/ TenantConfirm
    \/ LandlordConfirm
    \/ ReleaseDeposit

SpecRelease == InitIds /\ [][NextRelease]_vars


\* The life of one agreement, with the emergency pause at any point of it.
NextPause ==
    \/ Next
    \/ Pause

SpecPause == Init /\ [][NextPause]_vars


\* createAgreement with terms that pass every require, with and without a
\* metadata reference.
CreateAnyHash ==
    \E h \in Hashes :
        /\ nextAgreementId <= MaxAgreements
        /\ LET r == create(World, now, [GoodTerms(now) EXCEPT !.metadataHash = h])
           IN  /\ Commit(r)
               /\ returned' = IF r.err = "" THEN Append(returned, r.ret)
                              ELSE returned
               /\ paidIn' = PaidInAfter(r, r.ret, GoodTerms(now).value)
        /\ UNCHANGED <<now, configCalls, poolFunded, poolPaidOut, paidOut>>

\* The life of one agreement from a deployment whose property is verified:
\* creation, confirmation, rent, disputes, release and termination.
NextLive ==
    \/ Tick
    \/ CreateAnyHash
    \/ TenantConfirm
    \/ LandlordConfirm
    \/ PayRent
    \/ RaiseDispute
    \/ ResolveDispute
    \/ ReleaseDeposit
    \/ TerminateAgreement

\* That life when the clock advances, the admin resolves and terminates
\* whenever that succeeds, and the deposit is released whenever that
\* succeeds; the parties' other calls come as they may.
SpecLive ==
    /\ InitIds
    /\ [][NextLive]_vars
    /\ WF_vars(Tick)
    /\ WF_vars(ResolveDispute)
    /\ WF_vars(TerminateAgreement)
    /\ WF_vars(ReleaseDeposit)

\* ------------------------------------------------------------ properties
\* An agreement is stored once createAgreement has returned its id.
Stored == 1..(nextAgreementId - 1)

\* The status edges of the agreement state machine as the design lists them.
ListedEdges ==
    {<<"Pending", "Active">>, <<"Pending", "Cancelled">>,
     <<"Active", "Completed">>, <<"Active", "Disputed">>,
     <<"Active", "Terminated">>, <<"Disputed", "Completed">>,
     <<"Disputed", "Terminated">>}

\* Every change of an agreement's status in this step is one of `edges`.
StatusFollows(edges) ==
    \A id \in AgreementIds :
        agreements'[id].status # agreements[id].status
            => <<agreements[id].status, agreements'[id].status>> \in edges

\* C1, as stated: every change of an agreement's status follows one of the
\* seven listed edges; in particular none goes from Pending to Disputed.
C1_OnlyListedEdges == [][StatusFollows(ListedEdges)]_vars

\* C1, amended: every change of an agreement's status follows one of the
\* seven listed edges or goes from Pending to Disputed (raiseDispute accepts
\* a Pending agreement).
C1_ListedEdgesOrPendingDisputed ==
    [][StatusFollows(ListedEdges \cup {<<"Pending", "Disputed">>})]_vars

\* C1: an agreement disputed by a party before both parties confirmed it.
C1_DisputedWhilePending ==
    \E id \in Stored :
        /\ agreements[id].status = "Disputed"
        /\ ~(agreements[id].tenantConfirmed /\ agreements[id].landlordConfirmed)
        /\ disputes[id].initiator \in {agreements[id].tenant, agreements[id].landlord}

\* C2: an agreement that is not Pending is not Pending after any step, and
\* one that is neither Pending nor Active (so it has left Active, or never
\* was Active) is not Active after any step.
C2_NeverBackToPendingOrActive ==
    [][\A id \in AgreementIds :
          /\ agreements[id].status # "Pending"
                => agreements'[id].status # "Pending"
          /\ agreements[id].status \notin {"Pending", "Active"}
                => agreements'[id].status # "Active"]_vars

\* C2: an agreement that was activated and has left Active through a
\* resolved dispute.
C2_LeftActive ==
    \E id \in Stored :
        /\ agreements[id].tenantConfirmed /\ agreements[id].landlordConfirmed
        /\ agreements[id].status \in {"Completed", "Terminated"}
        /\ disputes[id].resolved

\* The outcome of every call other than payRent.
OtherAttempts ==
    {create(World, now, in) : in \in Terms(now)}
    \cup {tenantConfirm(World, now, c.sender, c.id) : c \in PartyCalls}
    \cup {landlordConfirm(World, now, c.sender, c.id) : c \in PartyCalls}
    \cup {checkRentOverdue(World, now, c.sender, c.id) : c \in PartyCalls}
    \cup {releaseDeposit(World, now, c.sender, c.id) : c \in PartyCalls}
    \cup {raiseDispute(World, now, c.sender, c.id, c.reason, "QmEvidence") :
            c \in DisputeCalls}
    \cup {submitEvidence(World, now, c.sender, c.id, c.evidenceHash) :
            c \in EvidenceCalls}
    \cup {resolveDispute(World, now, c.sender, c.id, c.refundTenant) :
            c \in ResolveCalls}
    \cup {cancelAgreement(World, now, c.sender, c.id) : c \in PartyCalls}
    \cup {terminateAgreement(World, now, c.sender, c.id, c.proRatedRefund) :
            c \in TerminateCalls}
    \cup {grantGasSubsidy(World, a, b) : a \in Callers, b \in {"alice", ZeroAddr}}
    \cup {fundGasSubsidy(World, a, v) : a \in Callers, v \in PoolFunds}
    \cup {updatePlatformFee(World, a, v) : a \in Callers, v \in NewPlatformFees}
    \cup {updateRentProcessingFee(World, a, v) : a \in Callers, v \in NewRentFees}
    \cup {updateDisputePeriod(World, a, v) : a \in Callers, v \in NewDisputePeriods}
    \cup {updateGracePeriod(World, a, v) : a \in Callers, v \in NewGracePeriods}
    \cup {pause(World, a) : a \in Callers}
    \cup {setMinter(World, a, b) : a \in Callers, b \in {This, ZeroAddr}}
    \cup {submitProperty(World, a) : a \in {"bob"}}
    \cup {verifyProperty(World, a, p) : a \in Callers, p \in PropertyIds}
    \cup {deactivateProperty(World, a, p) : a \in Callers, p \in PropertyIds}

\* The outcome of every call the actors can make in the present state.
Attempts == OtherAttempts \cup {rent(World, now, c) : c \in RentCalls}

\* C3: whatever call is made in whatever reachable state, if it is rejected
\* then the storage it leaves (agreements, rent payments, disputes, actor
\* indices, cooldown map, fee rates, subsidy pool, balance, properties and
\* receipts) is the storage it found, and it has sent no value.
C3_RejectedLeavesStoreUnchanged ==
    \A r \in Attempts : r.err # "" => r.st = World /\ r.xfers = <<>>

\* C3: a state in which a call is rejected after it has written: a
\* termination whose payout exceeds the balance held, and a rent payment
\* whose proof is refused by the receipt ledger.
C3_RejectedAfterWriting ==
    /\ \E c \in TerminateCalls :
          terminateAgreement(World, now, c.sender, c.id, c.proRatedRefund).err
              = "Insufficient balance"
    /\ \E c \in RentCalls : rent(World, now, c).err = "Metadata hash required"

\* C4: in every reachable state, a createAgreement that succeeds returns the
\* next id and stores under it an agreement whose tenant is the caller, whose
\* status is Pending, whose two confirmation flags are false, whose
\* totalRentPaid is 0, whose depositAmount is the value sent, whose
\* nextRentDueDate is startDate + rentInterval and whose overdueGracePeriod is
\* the defaultGracePeriod of the state the call is made in.
C4_CreateStoresPendingAgreement ==
    \A in \in Terms(now) :
        LET r == create(World, now, in)
            a == r.st.agreements[nextAgreementId]
        IN  r.err = "" =>
                /\ r.ret = nextAgreementId
                /\ a.tenant = in.sender
                /\ a.status = "Pending"
                /\ ~a.tenantConfirmed /\ ~a.landlordConfirmed
                /\ a.totalRentPaid = 0
                /\ a.depositAmount = in.value
                /\ a.nextRentDueDate = in.startDate + in.rentInterval
                /\ a.overdueGracePeriod = defaultGracePeriod

\* C4: an agreement created after the admin shortened the grace period to
\* one day and the clock moved, still as createAgreement stored it.
C4_CreatedUnderNewGracePeriod ==
    \E id \in Stored :
        /\ agreements[id].overdueGracePeriod = Day
        /\ agreements[id].createdAt > 0
        /\ agreements[id].status = "Pending"
        /\ agreements[id].tenant = "alice"
        /\ agreements[id].depositAmount = 1000
        /\ agreements[id].nextRentDueDate = agreements[id].startDate + Day

\* C5: in every reachable state, a createAgreement that succeeds was made
\* while the property is verified and not deactivated, with the property's
\* owner as landlord, by a caller other than the landlord, with
\* startDate >= now; one that is rejected stores no agreement and leaves
\* the next id as it was.
C5_CreateOnlyIfEligible ==
    \A in \in Terms(now) :
        LET r == create(World, now, in)
        IN  /\ r.err = "" =>
                /\ properties[in.propertyId].isVerified
                /\ properties[in.propertyId].isActive
                /\ in.landlord = properties[in.propertyId].owner
                /\ in.landlord # in.sender
                /\ in.startDate >= now
            /\ r.err # "" =>
                /\ r.st.agreements = agreements
                /\ r.st.nextAgreementId = nextAgreementId
                /\ r.ret = 0

\* C5: an agreement was created, and the property was then deactivated, so
\* that the terms createAgreement accepted before are rejected.
C5_RejectedOnceDeactivated ==
    /\ nextAgreementId > 1
    /\ properties[1].isVerified /\ ~properties[1].isActive
    /\ create(World, now, GoodTerms(now)).err = "Property not verified"

\* The terms of an agreement that are fixed at creation.
TermsOf(a) ==
    <<a.tenant, a.landlord, a.propertyId, a.depositAmount, a.monthlyRent,
      a.rentInterval, a.startDate, a.endDate>>

\* C6: in every reachable state every stored agreement has tenant # landlord,
\* depositAmount > 0, monthlyRent > 0, 1 day <= rentInterval <= 365 days and
\* endDate > startDate; and no step changes the tenant, landlord, propertyId,
\* depositAmount, monthlyRent, rentInterval, startDate or endDate of a stored
\* agreement.
C6_TermsValidAndFixed ==
    /\ [](\A id \in Stored :
            /\ agreements[id].tenant # agreements[id].landlord
            /\ agreements[id].depositAmount > 0
            /\ agreements[id].monthlyRent > 0
            /\ agreements[id].rentInterval >= 1 * Day
            /\ agreements[id].rentInterval <= 365 * Day
            /\ agreements[id].endDate > agreements[id].startDate)
    /\ [][\A id \in Stored : TermsOf(agreements'[id]) = TermsOf(agreements[id])]_vars

\* C6: an agreement that was confirmed, paid rent on, disputed and resolved.
C6_AgreementAfterItsLife ==
    \E id \in Stored :
        /\ agreements[id].totalRentPaid > 0
        /\ agreements[id].status = "Completed"
        /\ disputes[id].resolved

\* C7, as stated: in every reachable state every stored agreement has a
\* non-empty metadataHash.
C7_StoredMetadataNonEmpty ==
    \A id \in Stored : agreements[id].metadataHash # ""

\* C8: in every reachable state the ids createAgreement has returned are
\* 1, 2, ..., k in this order, the next id is k + 1, a rejected
\* createAgreement leaves the next id as it was, every id returned holds the
\* agreement created under it and every other id holds nothing; and no step
\* lowers the next id or takes a stored agreement out of the store.
C8_IdsInOrderAndKept ==
    /\ [](/\ returned = [k \in 1..Len(returned) |-> k]
          /\ nextAgreementId = Len(returned) + 1
          /\ \A in \in Terms(now) :
                LET r == create(World, now, in)
                IN  r.st.nextAgreementId =
                        IF r.err = "" THEN nextAgreementId + 1 ELSE nextAgreementId
          /\ \A id \in AgreementIds :
                IF id \in Stored
                THEN /\ agreements[id].agreementId = id
                     /\ agreements[id].tenant # ZeroAddr
                ELSE agreements[id] = ZeroAgreement)
    /\ [][/\ nextAgreementId' >= nextAgreementId
          /\ \A id \in Stored :
                /\ agreements'[id].agreementId = id
                /\ agreements'[id].tenant = agreements[id].tenant]_vars

\* C8: two agreements created one after the other, the first cancelled and
\* the second terminated, both still in the store.
C8_TwoCreatedBothEnded ==
    /\ returned = <<1, 2>>
    /\ agreements[1].status = "Cancelled"
    /\ agreements[2].status = "Terminated"

\* What a confirmation by `sender` with outcome r does to agreement id, whose
\* party for this confirmation is `party` and whose flag for it is `flag`.
ConfirmEffect(r, sender, party, id, flag) ==
    LET a == agreements[id]
        b == r.st.agreements[id]
    IN  r.err = "" =>
            /\ sender = party
            /\ a.status = "Pending"
            /\ b[flag]
            /\ b.status = "Active" <=> (b.tenantConfirmed /\ b.landlordConfirmed)
            /\ b.status = "Active" => b.disputeDeadline = now + disputePeriod
            /\ b.status # "Active" => b.status = "Pending" /\ b.disputeDeadline = 0

\* C9: in every reachable state, tenantConfirm succeeds only for the tenant
\* and landlordConfirm only for the landlord, both only on a Pending
\* agreement; the call leaves the agreement Active exactly if both flags are
\* then true, and then disputeDeadline = now + disputePeriod, and otherwise
\* leaves it Pending with disputeDeadline 0. And a step takes an agreement
\* from Pending to Active exactly if it is the step that makes both flags
\* true.
C9_ConfirmActivatesOnBothFlags ==
    /\ [](\A c \in PartyCalls :
            /\ ConfirmEffect(tenantConfirm(World, now, c.sender, c.id), c.sender,
                             agreements[c.id].tenant, c.id,
                             "tenantConfirmed")
            /\ ConfirmEffect(landlordConfirm(World, now, c.sender, c.id), c.sender,
                             agreements[c.id].landlord, c.id,
                             "landlordConfirmed"))
    /\ [][\A id \in AgreementIds :
            (agreements[id].status = "Pending" /\ agreements'[id].status = "Active")
            <=> /\ ~(agreements[id].tenantConfirmed /\ agreements[id].landlordConfirmed)
                /\ agreements'[id].tenantConfirmed
                /\ agreements'[id].landlordConfirmed]_vars

\* C9: an agreement activated by its second confirmation after the admin
\* changed the dispute period to one day and the clock moved.
C9_ActivatedUnderNewPeriod ==
    \E id \in Stored :
        /\ agreements[id].status = "Active"
        /\ disputePeriod = Day
        /\ now > 0
        /\ agreements[id].disputeDeadline = now + Day

\* The outcome of a party confirming again the agreement id.
ConfirmsAgain(id) ==
    {r \in {tenantConfirm(World, now, agreements[id].tenant, id)} :
        agreements[id].tenantConfirmed}
    \cup {r \in {landlordConfirm(World, now, agreements[id].landlord, id)} :
            agreements[id].landlordConfirmed}

\* C10, as stated: in every reachable state, a tenantConfirm by the tenant of
\* an agreement the tenant has confirmed (and a landlordConfirm by the
\* landlord of one the landlord has confirmed) fails with "Already confirmed"
\* and leaves the storage as it was.
C10_SecondConfirmAlreadyConfirmed ==
    \A id \in Stored : \A r \in ConfirmsAgain(id) :
        r.err = "Already confirmed" /\ r.st = World

\* C10, amended: in every reachable state, a tenantConfirm by the tenant of
\* an agreement the tenant has confirmed (and a landlordConfirm by the
\* landlord of one the landlord has confirmed) fails and leaves the storage
\* as it was; it fails with "Already confirmed" while the agreement is
\* Pending and with "Agreement not pending" once it is not.
C10_SecondConfirmFails ==
    \A id \in Stored : \A r \in ConfirmsAgain(id) :
        /\ r.err = IF agreements[id].status = "Pending"
                   THEN "Already confirmed" ELSE "Agreement not pending"
        /\ r.st = World

\* C10: an agreement both parties confirmed, on which the tenant then paid
\* rent and the landlord raised a dispute.
C10_ConfirmedThenDisputed ==
    \E id \in Stored :
        /\ agreements[id].tenantConfirmed /\ agreements[id].landlordConfirmed
        /\ agreements[id].status = "Disputed"
        /\ disputes[id].initiator = agreements[id].landlord
        /\ Len(rentPayments[id]) > 0

\* C11: no step lowers the totalRentPaid of an agreement; and in every
\* reachable state a payRent that succeeds with value v leaves the
\* agreement's totalRentPaid higher by exactly v and that of every other
\* agreement as it was, while a rejected payRent and every other call leave
\* the totalRentPaid of every stored agreement as it was.
C11_TotalRentPaidCountsPayments ==
    /\ [][\A id \in AgreementIds :
            agreements'[id].totalRentPaid >= agreements[id].totalRentPaid]_vars
    /\ [](/\ \A c \in RentCalls : \A id \in Stored :
                LET r == rent(World, now, c)
                IN  r.st.agreements[id].totalRentPaid =
                        agreements[id].totalRentPaid
                        + (IF r.err = "" /\ id = c.id THEN c.value ELSE 0)
          /\ \A r \in OtherAttempts : \A id \in Stored :
                r.st.agreements[id].totalRentPaid = agreements[id].totalRentPaid)

\* C11: an agreement on which the rent of 100 was paid twice, once with 100
\* and once with 150.
C11_PaidWithOverpayment ==
    \E id \in Stored :
        /\ agreements[id].totalRentPaid = 250
        /\ agreements[id].monthlyRent = 100
        /\ Len(rentPayments[id]) = 2

\* C12: in every reachable state a payRent that succeeds leaves the
\* agreement's nextRentDueDate later by exactly its rentInterval and that of
\* every other agreement as it was, while a rejected payRent and every other
\* call leave the nextRentDueDate of every stored agreement as it was; and
\* no step changes the nextRentDueDate of a stored agreement other than by
\* adding one rentInterval.
C12_DueDateAdvancesByInterval ==
    /\ [](/\ \A c \in RentCalls : \A id \in Stored :
                LET r == rent(World, now, c)
                IN  r.st.agreements[id].nextRentDueDate =
                        agreements[id].nextRentDueDate
                        + (IF r.err = "" /\ id = c.id
                           THEN agreements[id].rentInterval ELSE 0)
          /\ \A r \in OtherAttempts : \A id \in Stored :
                r.st.agreements[id].nextRentDueDate = agreements[id].nextRentDueDate)
    /\ [][\A id \in Stored :
            \/ agreements'[id].nextRentDueDate = agreements[id].nextRentDueDate
            \/ agreements'[id].nextRentDueDate =
                   agreements[id].nextRentDueDate + agreements[id].rentInterval]_vars

\* C12: an agreement whose rent was paid twice, so that its next due date is
\* three intervals after its start, and which has since been disputed.
C12_DueDateAfterTwoPayments ==
    \E id \in Stored :
        /\ Len(rentPayments[id]) = 2
        /\ agreements[id].nextRentDueDate =
               agreements[id].startDate + 3 * agreements[id].rentInterval
        /\ agreements[id].status = "Disputed"

\* C13: in every reachable state a payRent that succeeds is made by the
\* agreement's tenant, on an Active agreement, with a value of at least the
\* monthlyRent, at a time not after endDate; a rejected payRent leaves every
\* agreement's payment list as it was.
C13_PayRentOnlyTenantActiveInTime ==
    \A c \in RentCalls :
        LET r == rent(World, now, c)
            a == agreements[c.id]
        IN  /\ r.err = "" =>
                /\ c.sender = a.tenant
                /\ a.status = "Active"
                /\ c.value >= a.monthlyRent
                /\ now <= a.endDate
            /\ r.err # "" => r.st.rentPayments = rentPayments

\* C13: an Active agreement past its endDate, on which the tenant's payment
\* is rejected for the date, having been accepted before.
C13_RejectedAfterLeaseEnd ==
    \E id \in Stored :
        /\ agreements[id].status = "Active"
        /\ now > agreements[id].endDate
        /\ Len(rentPayments[id]) > 0
        /\ payRent(World, now, agreements[id].tenant, 100, 5, id, "QmHash").err
               = "Lease has ended"

\* The gas refund a payRent by `sender` with gas cost `gasCost` pays out of the
\* subsidy pool.
GasRefund(sender, gasCost) ==
    IF isGasSubsidized[sender] /\ gasSubsidyPool > 0
    THEN (IF gasCost > gasSubsidyPool THEN gasSubsidyPool ELSE gasCost)
    ELSE 0

\* C14: in every reachable state a payRent that succeeds with value v sends
\* the platform wallet fee = floor(v * rentProcessingFeePercent / 100), sends
\* the landlord v - fee, and sends the tenant v - monthlyRent (on top of the
\* gas refund of a subsidized tenant), all in the same call; with v = 100,
\* rent 100 and a rate of 1 the landlord gets 99 and the platform 1, and with
\* v = 150 and rent 100 the tenant is sent 50.
C14_RentSplitOnValueSent ==
    \A c \in RentCalls :
        LET r == rent(World, now, c)
            a == agreements[c.id]
            fee == (c.value * rentProcessingFeePercent) \div 100
        IN  r.err = "" =>
                /\ Received(r.xfers, PlatformWallet) = fee
                /\ Received(r.xfers, a.landlord) = c.value - fee
                /\ Received(r.xfers, a.tenant) =
                       (c.value - a.monthlyRent) + GasRefund(c.sender, c.gasCost)
                /\ (c.value = 100 /\ a.monthlyRent = 100 /\ rentProcessingFeePercent = 1)
                       => /\ Received(r.xfers, a.landlord) = 99
                          /\ Received(r.xfers, PlatformWallet) = 1
                /\ (c.value = 150 /\ a.monthlyRent = 100)
                       => Received(r.xfers, a.tenant) - GasRefund(c.sender, c.gasCost) = 50

\* C14: an Active agreement after the admin raised the processing fee to 3
\* percent, on which a payment of 150 against a rent of 100 succeeds: the fee
\* is floor(4.5) = 4.
C14_OverpaymentAtNewRate ==
    \E id \in Stored :
        /\ rentProcessingFeePercent = 3
        /\ agreements[id].status = "Active"
        /\ Len(rentPayments[id]) > 0
        /\ LET r == payRent(World, now, agreements[id].tenant, 150, 5, id, "QmHash")
           IN  /\ r.err = ""
               /\ Received(r.xfers, PlatformWallet) = 4
               /\ Received(r.xfers, agreements[id].landlord) = 146

\* C15: in every reachable state a payRent that succeeds appends to the
\* agreement's payment list exactly one record, with status Paid, amount the
\* value sent, periodEnd the nextRentDueDate before the call and periodStart
\* that date less the rentInterval, and leaves every other list alone; no
\* other call changes a payment list; every record of every list spans
\* exactly the agreement's rentInterval; and every step leaves each list
\* as it was or with one record added at its end.
C15_PaymentsAppendOnly ==
    /\ [](/\ \A c \in RentCalls :
                LET r == rent(World, now, c)
                    a == agreements[c.id]
                IN  r.err = "" =>
                        r.st.rentPayments =
                            [rentPayments EXCEPT ![c.id] = Append(@,
                                [agreementId |-> c.id, amount |-> c.value,
                                 paidDate |-> now,
                                 periodStart |-> a.nextRentDueDate - a.rentInterval,
                                 periodEnd |-> a.nextRentDueDate,
                                 status |-> "Paid"])]
          /\ \A r \in OtherAttempts : r.st.rentPayments = rentPayments
          /\ \A id \in AgreementIds : \A k \in 1..Len(rentPayments[id]) :
                /\ rentPayments[id][k].periodEnd - rentPayments[id][k].periodStart
                       = agreements[id].rentInterval
                /\ rentPayments[id][k].status = "Paid")
    /\ [][\A id \in AgreementIds :
            /\ Len(rentPayments'[id]) \in {Len(rentPayments[id]), Len(rentPayments[id]) + 1}
            /\ SubSeq(rentPayments'[id], 1, Len(rentPayments[id])) = rentPayments[id]]_vars

\* C15: an agreement with two payments recorded, for consecutive periods,
\* the first of 150 and the second of 100, which has since been disputed.
C15_TwoPeriodsRecorded ==
    \E id \in Stored :
        /\ Len(rentPayments[id]) = 2
        /\ rentPayments[id][1].amount = 150
        /\ rentPayments[id][2].amount = 100
        /\ rentPayments[id][2].periodStart = rentPayments[id][1].periodEnd
        /\ agreements[id].status = "Disputed"

CooldownTimes(id) ==
    {lastOverdueCheck[id] + dt : dt \in {0, 1, Day - 1, Day}}

AfterCooldown(id) == lastOverdueCheck[id] + Day + 1

\* C17: in every reachable state a checkRentOverdue that succeeds is made
\* more than one day after the agreement's last successful check and records
\* now as its cooldown timestamp, whether or not it raises a dispute, leaving
\* the timestamps of the other agreements alone; a check of an agreement at a
\* time up to one day after its last successful check is rejected, by the
\* cooldown if nothing else rejects it, and one second later the cooldown
\* rejects it no more; the outcome of a check does not depend on the
\* timestamp of another agreement; and a step changes a cooldown timestamp
\* only to now and only more than one day after the timestamp it replaces.
C17_OverdueCheckOncePerDay ==
    /\ [](/\ \A c \in PartyCalls :
                LET r == checkRentOverdue(World, now, c.sender, c.id)
                IN  r.err = "" =>
                        /\ now > lastOverdueCheck[c.id] + Day
                        /\ r.st.lastOverdueCheck =
                               [lastOverdueCheck EXCEPT ![c.id] = now]
          /\ \A c \in PartyCalls :
                lastOverdueCheck[c.id] > 0 =>
                    /\ \A t \in CooldownTimes(c.id) :
                          LET r == checkRentOverdue(World, t, c.sender, c.id)
                          IN  /\ r.err # ""
                              /\ (agreements[c.id].status = "Active"
                                  /\ c.sender \in {agreements[c.id].tenant,
                                                   agreements[c.id].landlord, Admin})
                                     => r.err = "Cooldown: Check once per day"
                    /\ checkRentOverdue(World, AfterCooldown(c.id), c.sender, c.id).err
                           # "Cooldown: Check once per day"
          /\ \A c \in PartyCalls : \A other \in AgreementIds \ {c.id} :
                LET r == checkRentOverdue(World, now, c.sender, c.id)
                    q == checkRentOverdue([World EXCEPT !.lastOverdueCheck[other] = now],
                                          now, c.sender, c.id)
                IN  q.err = r.err /\ q.st.agreements = r.st.agreements)
    /\ [][\A id \in AgreementIds :
            lastOverdueCheck'[id] # lastOverdueCheck[id] =>
                /\ lastOverdueCheck'[id] = now
                /\ now > lastOverdueCheck[id] + Day]_vars

\* C17: two Active agreements, the first checked without a dispute being
\* raised and the second not yet checked, so that a check of the first is
\* in its cooldown and a check of the second succeeds.
C17_OneCheckedOneNot ==
    /\ agreements[1].status = "Active" /\ agreements[2].status = "Active"
    /\ lastOverdueCheck[1] = now /\ lastOverdueCheck[2] = 0
    /\ checkRentOverdue(World, now, "alice", 1).err = "Cooldown: Check once per day"
    /\ checkRentOverdue(World, now, "alice", 2).err = ""

\* The times releaseDeposit is tried at on agreement id: now, and from now on
\* the last second before and the first second of the end of the dispute
\* period and of the lease.
ReleaseTimes(id) ==
    {t \in {now, agreements[id].disputeDeadline - 1, agreements[id].disputeDeadline,
            agreements[id].endDate - 1, agreements[id].endDate} : t >= now}

C19_CancelOnlyPendingByTenant ==
    \A c \in PartyCalls :
        LET r == cancelAgreement(World, now, c.sender, c.id)
            a == agreements[c.id]
        IN  /\ r.err = "" =>
                /\ c.sender = a.tenant
                /\ a.status = "Pending"
                /\ r.st.agreements[c.id].status = "Cancelled"
                /\ r.xfers = <<[to |-> a.tenant, amount |-> a.depositAmount]>>
            /\ a.status # "Pending" =>
                /\ r.err = "Agreement not pending"
                /\ r.st = World

\* C19: two agreements, the first cancelled by its tenant and its deposit
\* gone from the balance, the second Active, on which the tenant's
\* cancellation is rejected.
C19_OneCancelledOneActive ==
    /\ agreements[1].status = "Cancelled"
    /\ agreements[2].status = "Active"
    /\ balance = agreements[2].depositAmount
    /\ cancelAgreement(World, now, agreements[2].tenant, 2).err = "Agreement not pending"

\* C20: in every reachable state a terminateAgreement that succeeds is made
\* by the admin on an Active or Disputed agreement with proRatedRefund <=
\* depositAmount + totalRentPaid; it leaves the agreement Terminated, sends
\* the tenant exactly proRatedRefund and, with remaining = depositAmount +
\* totalRentPaid - proRatedRefund, sends the platform wallet
\* floor(remaining * platformFeePercent / 100) and the landlord remaining
\* less that fee.
C20_TerminateSharesOutTotal ==
    \A c \in TerminateCalls :
        LET r == terminateAgreement(World, now, c.sender, c.id, c.proRatedRefund)
            a == agreements[c.id]
            remaining == a.depositAmount + a.totalRentPaid - c.proRatedRefund
            fee == (remaining * platformFeePercent) \div 100
        IN  r.err = "" =>
                /\ c.sender = Admin
                /\ a.status \in {"Active", "Disputed"}
                /\ c.proRatedRefund <= a.depositAmount + a.totalRentPaid
                /\ r.st.agreements[c.id].status = "Terminated"
                /\ Received(r.xfers, a.tenant) = c.proRatedRefund
                /\ Received(r.xfers, PlatformWallet) = fee
                /\ Received(r.xfers, a.landlord) = remaining - fee

\* C20: an agreement terminated after rent was paid on it and after the
\* admin raised the platform fee to 5 percent, the payout having come out of
\* the balance the two agreements' deposits made up.
C20_TerminatedAfterRent ==
    /\ platformFeePercent = 5
    /\ \E id \in Stored :
          /\ agreements[id].status = "Terminated"
          /\ agreements[id].totalRentPaid > 0
    /\ balance > 0
    /\ balance < 1000

\* C21: in every reachable state a raiseDispute that succeeds is made by the
\* tenant or the landlord of an agreement that is Active or Pending, with a
\* reason that is not empty; it leaves the agreement Disputed and its
\* dispute record unresolved, with the caller as initiator, isRentDispute
\* false, no winner and an evidence list of the one reference given.
C21_RaiseDisputeByPartyWithReason ==
    \A c \in DisputeCalls :
        \A e \in Hashes :
            LET r == raiseDispute(World, now, c.sender, c.id, c.reason, e)
                a == agreements[c.id]
                d == r.st.disputes[c.id]
            IN  r.err = "" =>
                    /\ c.sender \in {a.tenant, a.landlord}
                    /\ a.status \in {"Active", "Pending"}
                    /\ c.reason # ""
                    /\ r.st.agreements[c.id].status = "Disputed"
                    /\ ~d.resolved
                    /\ d.initiator = c.sender
                    /\ ~d.isRentDispute
                    /\ d.winner = ZeroAddr
                    /\ d.evidenceHashes = <<e>>

\* C21: an agreement disputed by its tenant while Active, before any rent
\* was paid: the record holds the reference given with the dispute.
C21_DisputedByTenantWhileActive ==
    \E id \in Stored :
        /\ agreements[id].status = "Disputed"
        /\ agreements[id].tenantConfirmed /\ agreements[id].landlordConfirmed
        /\ disputes[id].initiator = agreements[id].tenant
        /\ disputes[id].reason = "damage"
        /\ disputes[id].evidenceHashes = <<"QmEvidence">>
        /\ ~disputes[id].resolved
        /\ ~disputes[id].isRentDispute

\* The list b begins with the list a.
StartsWith(b, a) == Len(a) <= Len(b) /\ SubSeq(b, 1, Len(a)) = a

\* C22: in every reachable state a submitEvidence that succeeds is made by
\* the tenant or the landlord of a Disputed agreement whose dispute is
\* unresolved, with a reference that is not empty, and the storage it leaves
\* differs from the present one in the evidence list of that dispute only,
\* which is the earlier list with the reference appended; and whatever call
\* is made, the evidence list of every dispute afterwards begins with the
\* list as it is now.
C22_EvidenceAppendedOnly ==
    /\ \A c \in EvidenceCalls :
          LET r == submitEvidence(World, now, c.sender, c.id, c.evidenceHash)
              a == agreements[c.id]
          IN  r.err = "" =>
                  /\ c.sender \in {a.tenant, a.landlord}
                  /\ a.status = "Disputed"
                  /\ ~disputes[c.id].resolved
                  /\ c.evidenceHash # ""
                  /\ r.st = [World EXCEPT !.disputes[c.id].evidenceHashes =
                                              Append(@, c.evidenceHash)]
    /\ \A r \in Attempts :
          \A id \in AgreementIds :
              StartsWith(r.st.disputes[id].evidenceHashes,
                         disputes[id].evidenceHashes)

\* C22: a dispute raised with one reference to which a second, different
\* one was added, the agreement still Disputed.
C22_SecondEvidenceAdded ==
    \E id \in Stored :
        /\ agreements[id].status = "Disputed"
        /\ ~disputes[id].resolved
        /\ disputes[id].evidenceHashes = <<"QmEvidence", "QmHash">>

ResolvesAgain(id) ==
    {resolveDispute(World, now, c.sender, c.id, c.refundTenant) :
        c \in {x \in ResolveCalls : x.id = id}}

\* C24, as stated: in every reachable state, on an agreement whose dispute
\* is resolved, a resolveDispute by the admin with either value of
\* refundTenant fails with "Dispute already resolved", makes no transfer and
\* leaves the storage as it was.
C24_SecondResolveAlreadyResolved ==
    \A id \in Stored :
        disputes[id].resolved =>
            \A b \in BOOLEAN :
                LET r == resolveDispute(World, now, Admin, id, b)
                IN  /\ r.err = "Dispute already resolved"
                    /\ r.xfers = <<>>
                    /\ r.st = World

\* C24, amended: in every reachable state, on an agreement whose dispute is
\* resolved, the agreement is no longer Disputed and every resolveDispute,
\* with either value of refundTenant, fails, makes no transfer and leaves
\* the storage (winner, resolved and status with it) as it was; made by the
\* admin it fails with "Agreement not disputed".
C24_SecondResolveFails ==
    \A id \in Stored :
        disputes[id].resolved =>
            /\ agreements[id].status \in {"Terminated", "Completed"}
            /\ \A r \in ResolvesAgain(id) :
                  /\ r.err # ""
                  /\ r.xfers = <<>>
                  /\ r.st = World
            /\ \A b \in BOOLEAN :
                  resolveDispute(World, now, Admin, id, b).err
                      = "Agreement not disputed"

\* C24: a dispute resolved for the tenant while the escrow still holds the
\* deposit of another agreement, so that a second payout could be made:
\* the admin's second resolveDispute, for the landlord, is rejected.
C24_ResolvedWithBalanceLeft ==
    \E id \in Stored :
        /\ disputes[id].resolved
        /\ disputes[id].winner = agreements[id].tenant
        /\ balance >= agreements[id].depositAmount
        /\ resolveDispute(World, now, Admin, id, FALSE).err # ""

\* The fields of a dispute record that no operation writes after creating
\* it.
DisputeOf(d) ==
    [agreementId |-> d.agreementId, initiator |-> d.initiator,
     reason |-> d.reason, createdAt |-> d.createdAt,
     isRentDispute |-> d.isRentDispute]

\* C25: in every reachable state every agreement id has one dispute slot,
\* holding either no record or the record of that agreement; the winner of a
\* dispute is unset while it is unresolved and is the tenant or the landlord
\* of the agreement once it is resolved; and whatever call is made, a
\* dispute record that exists stays in place with its agreement, initiator,
\* reason, time of creation and kind, and a resolved dispute stays resolved
\* with its winner.
C25_DisputeRecordKept ==
    /\ DOMAIN disputes = AgreementIds
    /\ \A id \in AgreementIds :
          LET d == disputes[id]
          IN  /\ d.initiator = ZeroAddr => d = ZeroDispute
              /\ d.initiator # ZeroAddr => d.agreementId = id /\ id \in Stored
              /\ ~d.resolved => d.winner = ZeroAddr
              /\ d.resolved =>
                    /\ d.initiator # ZeroAddr
                    /\ d.winner \in {agreements[id].tenant, agreements[id].landlord}
    /\ \A r \in Attempts :
          \A id \in AgreementIds :
              LET d == disputes[id]
                  e == r.st.disputes[id]
              IN  /\ d.initiator # ZeroAddr => DisputeOf(e) = DisputeOf(d)
                  /\ d.resolved => e.resolved /\ e.winner = d.winner

\* C25: a dispute raised by the overdue check and resolved for the
\* landlord: the record still names the escrow as initiator.
C25_RentDisputeResolved ==
    \E id \in Stored :
        /\ disputes[id].initiator = This
        /\ disputes[id].isRentDispute
        /\ disputes[id].resolved
        /\ disputes[id].winner = agreements[id].landlord
        /\ agreements[id].status = "Completed"

\* The rates the two updates are tried with.
FeeInputs == NewPlatformFees \cup NewRentFees

\* C26: in every reachable state platformFeePercent <= 5 and
\* rentProcessingFeePercent <= 3; an updatePlatformFee
\* (updateRentProcessingFee) succeeds only for the admin with a rate of at
\* most 5 (3), which it stores; made by anyone else or with a higher rate it
\* is rejected and leaves the storage as it was; and whatever call is made,
\* a rate that differs afterwards was set by the admin's update of that rate.
C26_RatesCappedAdminOnly ==
    /\ platformFeePercent <= 5
    /\ rentProcessingFeePercent <= 3
    /\ \A a \in Users : \A v \in FeeInputs :
          LET p == updatePlatformFee(World, a, v)
              q == updateRentProcessingFee(World, a, v)
          IN  /\ IF a = Admin /\ v <= 5
                 THEN p.err = "" /\ p.st = [World EXCEPT !.platformFeePercent = v]
                 ELSE p.err # "" /\ p.st = World
              /\ IF a = Admin /\ v <= 3
                 THEN q.err = "" /\ q.st = [World EXCEPT !.rentProcessingFeePercent = v]
                 ELSE q.err # "" /\ q.st = World
    /\ \A r \in Attempts :
          /\ r.st.platformFeePercent # platformFeePercent =>
                r \in {updatePlatformFee(World, Admin, v) : v \in FeeInputs}
          /\ r.st.rentProcessingFeePercent # rentProcessingFeePercent =>
                r \in {updateRentProcessingFee(World, Admin, v) : v \in FeeInputs}

\* C26: both rates raised to their caps by the admin on an escrow that has
\* taken rent, where raising either one step further is rejected.
C26_BothRatesAtCap ==
    /\ platformFeePercent = 5
    /\ rentProcessingFeePercent = 3
    /\ \E id \in Stored :
          /\ agreements[id].totalRentPaid > 0
          /\ updatePlatformFee(World, Admin, 6).err = "Fee too high"
          /\ updateRentProcessingFee(World, Admin, 4).err = "Fee too high"

\* The fee rates within the caps.
CappedPlatformFees == 0..5
CappedRentFees == 0..3

\* The storage as it is but for the two fee rates, which the admin can set
\* to any value within the caps.
WorldAtRates(p, q) ==
    [World EXCEPT !.platformFeePercent = p, !.rentProcessingFeePercent = q]

\* The breakdown of the agreement id is computed as the claim gives it.
BreakdownComputed(s, id) ==
    LET a == s.agreements[id]
        b == calculateFeeBreakdown(s, id)
        e == emitFeeBreakdown(s, id)
        depositFee == (a.depositAmount * s.platformFeePercent) \div 100
        rentFee == (a.totalRentPaid * s.rentProcessingFeePercent) \div 100
        landlordNet == (a.depositAmount - depositFee) + (a.totalRentPaid - rentFee)
    IN  /\ depositFee <= a.depositAmount /\ rentFee <= a.totalRentPaid
        /\ b.platformFeeOnDeposit = depositFee
        /\ b.platformFeeOnRent = rentFee
        /\ b.netToLandlord = landlordNet
        /\ e.landlordNet = landlordNet
        /\ e.platformTotal = depositFee + rentFee

\* C27, as stated: in every reachable state, for every agreement and all
\* fee rates within the caps, the breakdown is computed as given and
\* landlordNet + depositFee = depositAmount and rentFee + (totalRentPaid -
\* rentFee) = totalRentPaid.
C27_NetPlusDepositFeeIsDeposit ==
    \A id \in Stored : \A p \in CappedPlatformFees : \A q \in CappedRentFees :
        LET s == WorldAtRates(p, q)
            b == calculateFeeBreakdown(s, id)
        IN  /\ BreakdownComputed(s, id)
            /\ b.netToLandlord + b.platformFeeOnDeposit = b.depositAmount
            /\ b.platformFeeOnRent + (b.totalRentPaid - b.platformFeeOnRent)
                   = b.totalRentPaid

\* C27, amended: in every reachable state, for every agreement and all fee
\* rates within the caps, the breakdown is computed as given, with neither
\* fee above the amount it is taken from, and each of its two components
\* reconciles: (depositAmount - depositFee) + depositFee = depositAmount and
\* rentFee + (totalRentPaid - rentFee) = totalRentPaid, so that landlordNet +
\* depositFee + rentFee = depositAmount + totalRentPaid; landlordNet +
\* depositFee = depositAmount exactly when no rent has been paid.
C27_ComponentsReconcile ==
    \A id \in Stored : \A p \in CappedPlatformFees : \A q \in CappedRentFees :
        LET s == WorldAtRates(p, q)
            b == calculateFeeBreakdown(s, id)
        IN  /\ BreakdownComputed(s, id)
            /\ (b.depositAmount - b.platformFeeOnDeposit) + b.platformFeeOnDeposit
                   = b.depositAmount
            /\ b.platformFeeOnRent + (b.totalRentPaid - b.platformFeeOnRent)
                   = b.totalRentPaid
            /\ b.netToLandlord + b.platformFeeOnDeposit + b.platformFeeOnRent
                   = b.depositAmount + b.totalRentPaid
            /\ (b.netToLandlord + b.platformFeeOnDeposit = b.depositAmount)
                   <=> (b.totalRentPaid = 0)

\* C27: an agreement with a deposit of 1030 and 250 of rent paid, under
\* rates of 5 and 3 percent: both fees are rounded down (51 and 7) and the
\* landlord's net, 1222, holds the rent's share besides the deposit's.
C27_BreakdownAfterRent ==
    \E id \in Stored :
        /\ platformFeePercent = 5 /\ rentProcessingFeePercent = 3
        /\ agreements[id].depositAmount = 1030
        /\ agreements[id].totalRentPaid = 250
        /\ calculateFeeBreakdown(World, id).platformFeeOnDeposit = 51
        /\ calculateFeeBreakdown(World, id).platformFeeOnRent = 7
        /\ calculateFeeBreakdown(World, id).netToLandlord = 1222

\* The estimates of the execution cost payRent is evaluated with: none, one
\* the pool covers and one above every pool.
GasEstimates == {0, 5, MaxPool + 1}

\* C28: in every reachable state the subsidy pool is at least 0 and equals
\* the total funded less the total of the gas refunds sent; a payRent that
\* succeeds pays its caller, the tenant, out of the pool exactly when the
\* caller's eligibility flag is set and the pool is not empty, the payout
\* is min(estimated execution cost, pool), it is the first transfer of the
\* call, and the pool goes down by exactly the payout; a payRent that fails
\* leaves the pool as it was; and no call of another operation lowers the
\* pool.
C28_PoolPaysOnlyInPayRent ==
    /\ gasSubsidyPool >= 0
    /\ gasSubsidyPool = poolFunded - poolPaidOut
    /\ \A c \in RentCalls : \A g \in GasEstimates :
          LET r == payRent(World, now, c.sender, c.value, g, c.id, c.metadataHash)
              due == GasRefund(c.sender, g)
          IN  IF r.err = ""
              THEN /\ c.sender = agreements[c.id].tenant
                   /\ SubsidyPaid(r, c) = due
                   /\ due <= gasSubsidyPool
                   /\ isGasSubsidized[c.sender] /\ gasSubsidyPool > 0 =>
                         due = (IF g > gasSubsidyPool THEN gasSubsidyPool ELSE g)
                   /\ due > 0 => isGasSubsidized[c.sender] /\ gasSubsidyPool > 0
                   /\ isGasSubsidized[c.sender] /\ gasSubsidyPool > 0 =>
                         Head(r.xfers) = [to |-> c.sender, amount |-> due]
                   /\ r.st.gasSubsidyPool = gasSubsidyPool - due
              ELSE r.st.gasSubsidyPool = gasSubsidyPool
    /\ \A r \in OtherAttempts : r.st.gasSubsidyPool >= gasSubsidyPool

\* C28: a pool funded with 8 and emptied by two rent payments of an
\* eligible tenant, the first refunded the estimate of 5 and the second the
\* 3 that were left.
C28_PoolEmptiedByTwoRefunds ==
    /\ poolFunded = 8
    /\ poolPaidOut = 8
    /\ gasSubsidyPool = 0
    /\ isGasSubsidized["alice"]
    /\ \E id \in Stored : Len(rentPayments[id]) = 2

\* C29: in every reachable state, for every payRent that gets as far as its
\* transfer to the landlord, every call the landlord makes on the same
\* agreement while that transfer is in progress (into any of the operations,
\* checkRentOverdue and submitEvidence among them) is rejected and leaves
\* the storage as the transfer found it.
C29_NestedCallsRejected ==
    \A c \in RentCalls :
        LET m == payRentToLandlord(World, now, c.sender, c.value, c.gasCost, c.id)
        IN  m.err = "" =>
                \A n \in NestedAttempts(m.st, now, agreements[c.id].landlord, c.id) :
                    n.err # "" /\ n.st = m.st

\* The bookkeeping of the store: the agreements (status, totalRentPaid,
\* nextRentDueDate), the rent payments, the disputes and the subsidy pool.
Bookkeeping(s) ==
    [agreements |-> s.agreements, rentPayments |-> s.rentPayments,
     disputes |-> s.disputes, gasSubsidyPool |-> s.gasSubsidyPool]

\* The outcome of every call of the operations that transfer value.
ValueAttempts ==
    {rent(World, now, c) : c \in RentCalls}
    \cup {releaseDeposit(World, now, c.sender, c.id) : c \in PartyCalls}
    \cup {resolveDispute(World, now, c.sender, c.id, c.refundTenant) :
            c \in ResolveCalls}
    \cup {cancelAgreement(World, now, c.sender, c.id) : c \in PartyCalls}
    \cup {terminateAgreement(World, now, c.sender, c.id, c.proRatedRefund) :
            c \in TerminateCalls}

\* C30: in every reachable state, for every payRent, releaseDeposit,
\* resolveDispute, cancelAgreement and terminateAgreement that succeeds and
\* transfers value, the bookkeeping of the store that the recipient of the
\* first transfer finds is the bookkeeping the call leaves, and the storage
\* that the recipient of the last transfer finds is the storage the call
\* leaves: nothing is written after the last transfer.
C30_BookkeepingThenTransfersLast ==
    \A r \in ValueAttempts :
        r.err = "" /\ r.seen # <<>> =>
            /\ Bookkeeping(r.seen[1]) = Bookkeeping(r.st)
            /\ r.seen[Len(r.seen)] = r.st

\* C31: in every reachable state a mintReceipt or mintRentPaymentProof
\* succeeds only when its caller is authorized, at most one account is
\* authorized, and once one is, no setMinter changes who is authorized.
C31_OneMinterSetOnce ==
    /\ \A caller \in Users \cup {This} :
          LET p == mintRentPaymentProof(Begin(World), caller, "alice", "bob", 1,
                                        100, now, 0, Day, "QmHash")
              q == mintReceipt(Begin(World), caller, now, "alice", "bob", 1,
                               1000, 0, Day, "QmHash")
          IN  /\ p.err = "" => caller \in minters
              /\ q.err = "" => caller \in minters
    /\ Cardinality(minters) <= 1
    /\ minters # {} =>
          \A sender \in Users : \A account \in MinterInputs :
              setMinter(World, sender, account).st.minters = minters


\* The number of times x occurs in the sequence q.
Occurrences(q, x) == Cardinality({i \in 1..Len(q) : q[i] = x})

\* C32: in every reachable state every stored agreement id occurs exactly
\* once in the tenant index of its tenant and exactly once in the landlord
\* index of its landlord and in no other actor's tenant or landlord index,
\* no index holds an id that is not stored, and whatever call is made, every
\* index afterwards begins with the index as it is now: entries are neither
\* removed nor reordered.
C32_IndicesHoldEachIdOnce ==
    /\ \A id \in AgreementIds : \A u \in Users :
          /\ Occurrences(tenantAgreements[u], id)
                = IF id \in Stored /\ agreements[id].tenant = u THEN 1 ELSE 0
          /\ Occurrences(landlordAgreements[u], id)
                = IF id \in Stored /\ agreements[id].landlord = u THEN 1 ELSE 0
    /\ \A r \in Attempts : \A u \in Users :
          /\ StartsWith(r.st.tenantAgreements[u], tenantAgreements[u])
          /\ StartsWith(r.st.landlordAgreements[u], landlordAgreements[u])

\* C32: two agreements are indexed in creation order under their tenant and
\* their landlord, and the first has since been cancelled.
C32_TwoIndexedOneCancelled ==
    /\ tenantAgreements["alice"] = <<1, 2>>
    /\ landlordAgreements["bob"] = <<1, 2>>
    /\ agreements[1].status = "Cancelled"


\* C33: in every reachable state, for every agreement, the value sent on its
\* behalf so far (cancel refund, rent forwarded to the landlord and the
\* platform, excess refunds, release, dispute resolution and termination
\* payouts, the gas subsidy drawn from the pool left out) is at most the value
\* received for it so far (its deposit and its rent payments).
C33_PaidOutWithinPaidIn ==
    \A id \in AgreementIds : paidOut[id] <= paidIn[id]


\* The agreement has reached a status it does not leave by design.
Terminal(id) == agreements[id].status \in {"Completed", "Cancelled", "Terminated"}

\* The outcome of every call of the operations that transfer value or mint,
\* on the agreement id.
ValueAttemptsOn(id) ==
    {rent(World, now, c) : c \in {x \in RentCalls : x.id = id}}
    \cup {releaseDeposit(World, now, sender, id) : sender \in Users}
    \cup {resolveDispute(World, now, sender, id, refundTenant) :
            sender \in Users, refundTenant \in BOOLEAN}
    \cup {cancelAgreement(World, now, sender, id) : sender \in Users}
    \cup {terminateAgreement(World, now, sender, id, proRatedRefund) :
            sender \in Users, proRatedRefund \in Refunds}

\* C34: in every reachable state, no call of payRent, releaseDeposit,
\* resolveDispute, cancelAgreement or terminateAgreement on an agreement that
\* is Completed, Cancelled or Terminated transfers value or records a
\* receipt.
C34_NoPayoutAfterTerminal ==
    \A id \in Stored :
        Terminal(id) =>
            \A r \in ValueAttemptsOn(id) :
                r.xfers = <<>> /\ r.st.receipts = receipts


\* C35: in every reachable state, for every payRent that succeeds, the
\* landlord transfer, the platform fee transfer and the excess refunded to
\* the tenant (the gas subsidy drawn from the pool left out) add up to the
\* value paid.
C35_PayRentConservesPayment ==
    \A c \in RentCalls :
        LET r == rent(World, now, c)
        IN  r.err = "" =>
                Received(r.xfers, agreements[c.id].landlord)
                  + Received(r.xfers, PlatformWallet)
                  + (Received(r.xfers, c.sender) - SubsidyPaid(r, c)) = c.value


\* A dispute was recorded for the agreement.
DisputeExists(id) == disputes[id].initiator # ZeroAddr

\* C36: in every reachable state an agreement is Disputed exactly when a
\* dispute is recorded for it and is unresolved; hence a Completed, Cancelled
\* or Terminated agreement with a dispute record has it resolved, with a
\* winner.
C36_DisputedIffUnresolvedRecord ==
    \A id \in Stored :
        /\ agreements[id].status = "Disputed"
              <=> (DisputeExists(id) /\ ~disputes[id].resolved)
        /\ Terminal(id) /\ DisputeExists(id)
              => disputes[id].resolved /\ disputes[id].winner # ZeroAddr


\* The sum of the amounts of the rent payments q.
RECURSIVE TotalOf(_)
TotalOf(q) == IF q = <<>> THEN 0 ELSE Head(q).amount + TotalOf(Tail(q))

\* C37: in every reachable state, for every stored agreement with n recorded
\* rent payments, nextRentDueDate is startDate + (n + 1) * rentInterval,
\* totalRentPaid is the sum of the n recorded amounts, the first payment's
\* period starts at startDate, every later payment's period starts where the
\* period of the payment before it ends, and every period is one
\* rentInterval long.
C37_RentPeriodsContiguous ==
    \A id \in Stored :
        LET a == agreements[id]
            q == rentPayments[id]
            n == Len(q)
        IN  /\ a.nextRentDueDate = a.startDate + (n + 1) * a.rentInterval
            /\ a.totalRentPaid = TotalOf(q)
            /\ n > 0 => q[1].periodStart = a.startDate
            /\ \A i \in 2..n : q[i].periodStart = q[i - 1].periodEnd
            /\ \A i \in 1..n : q[i].periodEnd = q[i].periodStart + a.rentInterval

\* C37: two rent payments of different amounts are recorded for an
\* agreement.
C37_TwoPaymentsRecorded ==
    /\ Len(rentPayments[1]) = 2
    /\ rentPayments[1][1].amount # rentPayments[1][2].amount


\* The instant is past the day from which checkRentOverdue raises a dispute
\* on an Active agreement with these dates.
ThreeDaysOverdue(id) ==
    now >= agreements[id].nextRentDueDate + agreements[id].overdueGracePeriod
             + 3 * Day
    /\ now > lastOverdueCheck[id] + 1 * Day

\* C38: in every reachable state, every checkRentOverdue on an agreement
\* whose status is not Active is rejected with "Agreement not active" and
\* leaves the storage as it found it: status, dispute record and cooldown
\* timestamp included; and one that succeeds finds the agreement Active and
\* leaves it Active or Disputed.
C38_OverdueCheckNeedsActive ==
    \A id \in AgreementIds : \A sender \in Users :
        LET r == checkRentOverdue(World, now, sender, id)
        IN  /\ agreements[id].status # "Active" =>
                  /\ r.err = "Agreement not active"
                  /\ r.st = World
                  /\ r.xfers = <<>>
            /\ r.err = "" =>
                  /\ agreements[id].status = "Active"
                  /\ r.st.agreements[id].status \in {"Active", "Disputed"}

\* C38: rent is three days overdue and the cooldown has passed on an
\* agreement that is Disputed by its tenant, with the record of that dispute
\* unresolved.
C38_OverdueWhileDisputedByTenant ==
    /\ agreements[1].status = "Disputed"
    /\ disputes[1].initiator = "alice"
    /\ ~disputes[1].isRentDispute
    /\ ThreeDaysOverdue(1)


\* The present storage with the pause lifted.
Unpaused == [World EXCEPT !.paused = FALSE]

\* The calls r and u, made on storages that differ in the pause flag only,
\* end alike: same error, same transfers, same result and same writes.
SameOutcome(r, u) ==
    /\ r.err = u.err
    /\ r.xfers = u.xfers
    /\ r.ret = u.ret
    /\ [r.st EXCEPT !.paused = FALSE] = u.st

\* The outcome of every call of the admin's settings and of the property
\* and receipt contracts' operations.
AdminAttempts ==
    {pause(World, sender) : sender \in Users}
    \cup {grantGasSubsidy(World, sender, "alice") : sender \in Users}
    \cup {fundGasSubsidy(World, sender, v) : sender \in Users, v \in PoolFunds}
    \cup {updatePlatformFee(World, sender, f) : sender \in Users, f \in NewPlatformFees}
    \cup {updateRentProcessingFee(World, sender, f) : sender \in Users, f \in NewRentFees}
    \cup {updateDisputePeriod(World, sender, d) : sender \in Users, d \in NewDisputePeriods}
    \cup {updateGracePeriod(World, sender, d) : sender \in Users, d \in NewGracePeriods}
    \cup {setMinter(World, sender, This) : sender \in Users}
    \cup {submitProperty(World, sender) : sender \in Users}
    \cup {verifyProperty(World, sender, p) : sender \in Users, p \in PropertyIds}
    \cup {deactivateProperty(World, sender, p) : sender \in Users, p \in PropertyIds}

\* C39: in every reachable state in which the contract is paused, every
\* createAgreement and every payRent is rejected with "EnforcedPause", no
\* call of any operation lifts the pause, and every tenantConfirm,
\* landlordConfirm, checkRentOverdue, raiseDispute, submitEvidence,
\* resolveDispute, releaseDeposit, cancelAgreement and terminateAgreement
\* ends as it would on the same storage with the pause lifted.
C39_PauseStopsCreateAndRentOnly ==
    paused =>
        /\ \A in \in Terms(now) : create(World, now, in).err = "EnforcedPause"
        /\ \A c \in RentCalls : rent(World, now, c).err = "EnforcedPause"
        /\ \A r \in Attempts \cup AdminAttempts : r.st.paused
        /\ \A c \in PartyCalls :
              /\ SameOutcome(tenantConfirm(World, now, c.sender, c.id),
                             tenantConfirm(Unpaused, now, c.sender, c.id))
              /\ SameOutcome(landlordConfirm(World, now, c.sender, c.id),
                             landlordConfirm(Unpaused, now, c.sender, c.id))
              /\ SameOutcome(checkRentOverdue(World, now, c.sender, c.id),
                             checkRentOverdue(Unpaused, now, c.sender, c.id))
              /\ SameOutcome(releaseDeposit(World, now, c.sender, c.id),
                             releaseDeposit(Unpaused, now, c.sender, c.id))
              /\ SameOutcome(cancelAgreement(World, now, c.sender, c.id),
                             cancelAgreement(Unpaused, now, c.sender, c.id))
        /\ \A c \in DisputeCalls :
              SameOutcome(raiseDispute(World, now, c.sender, c.id, c.reason, "QmEvidence"),
                          raiseDispute(Unpaused, now, c.sender, c.id, c.reason, "QmEvidence"))
        /\ \A c \in EvidenceCalls :
              SameOutcome(submitEvidence(World, now, c.sender, c.id, c.evidenceHash),
                          submitEvidence(Unpaused, now, c.sender, c.id, c.evidenceHash))
        /\ \A c \in ResolveCalls :
              SameOutcome(resolveDispute(World, now, c.sender, c.id, c.refundTenant),
                          resolveDispute(Unpaused, now, c.sender, c.id, c.refundTenant))
        /\ \A c \in TerminateCalls :
              SameOutcome(terminateAgreement(World, now, c.sender, c.id, c.proRatedRefund),
                          terminateAgreement(Unpaused, now, c.sender, c.id, c.proRatedRefund))

\* C39: the contract is paused and the agreement is Active with its lease
\* running: a rent payment by the tenant that would be accepted with the
\* pause lifted is rejected, and a dispute raised by the tenant is accepted.
C39_PausedWhileActive ==
    /\ paused
    /\ agreements[1].status = "Active"
    /\ \E c \in RentCalls :
          rent(Unpaused, now, c).err = "" /\ rent(World, now, c).err = "EnforcedPause"
    /\ raiseDispute(World, now, "alice", 1, "damage", "QmEvidence").err = ""


\* The lease of the agreement has ended and its dispute period is over: the
\* clock no longer stands in the way of releaseDeposit.
LeaseOver(id) ==
    now >= agreements[id].endDate /\ now >= agreements[id].disputeDeadline

\* C40: when the admin's resolveDispute and terminateAgreement and the
\* release of the deposit are not put off forever, every agreement that is
\* Active or Disputed once its lease has ended and its dispute period is
\* over is Completed, Cancelled or Terminated at some later instant.
C40_ActiveOrDisputedEnds ==
    \A id \in 1..MaxAgreements :
        (agreements[id].status \in {"Active", "Disputed"} /\ LeaseOver(id))
            ~> Terminal(id)
====
